---- MODULE Spec2Model ----
(***************************************************************************)
(* gmail-tldr: the sync orchestrator (checkGmailForNewMessages), the       *)
(* stored state it reads and writes (chrome.storage.local), the in-memory  *)
(* dedup set and the summarizer call with its abort timer.                 *)
(*                                                                         *)
(* The repository holds two orchestrators: src/background.ts (guarded,     *)
(* no dedup set, cursor saved after delivery) and the orchestrator of      *)
(* part_012 (guarded, dedup set, summarizer, cursor saved before           *)
(* delivery).  `variant` selects one; it never changes in a behaviour.     *)
(* `summarizer` names the GeminiNanoService implementation in use:         *)
(* lib/ai/gemini.ts, which part_012 imports, or the one in lib/ai/types.ts.*)
(*                                                                         *)
(* Every `await` of the code is a suspension point: the code between two   *)
(* awaits is one action, and the other invocation, the mail provider and   *)
(* a teardown of the service worker may act in between.                    *)
(***************************************************************************)
EXTENDS Integers, Sequences, FiniteSets, TLC

\* ---------------------------------------------------------------- bounds
\* Message ids the provider can hold: 1..MaxMsg.
MaxMsg == 2
\* Triggers (timer ticks and manual requests) in one behaviour.
MaxTriggers == 3
\* The dedup set's high-water mark and the number of ids a trim keeps, scaled
\* to MaxMsg: they stand for 5000 and 2500 (size > 5000, slice(-2500)).
TrimHighWater == 1
TrimKeep == 1

\* ------------------------------------------------------ program constants
\* setTimeout(() => controller.abort(), 30000)
SUMMARIZE_TIMEOUT_MS == 30000

\* Two invocations of checkGmailForNewMessages can be alive at once
\* (the alarm listener and the message listener both `void` the call).
Procs == {"alarm", "popup"}

MsgIds == 1..MaxMsg

\* Summary texts.
TIMED_OUT == "(Summarization timed out)"
ERROR_GENERATING == "(Error generating summary)"
SUMMARY_FAILED == "(Summary failed: aborted)"
SUMMARY_FAILED_ERR == "(Summary failed: error)"
PREPROCESSING_FAILED == "(Preprocessing failed)"
ERROR_PREFIXED == "(Error: error)"
EMPTY_EMAIL == "(Empty email)"
MODEL_TEXT == "summary"
SNIPPET == "snippet"
AI_PREFIXED == "[AI] filtered"

VARIABLES
    variant,              \* "background" | "part012"
    summarizer,           \* "types" | "gemini"
    syncStatus,           \* chrome.storage.local[syncStatus]: "absent" | "idle" | "syncing" | "error"
    storedHistoryId,      \* chrome.storage.local[gmailHistoryId]; 0 = absent
    storedEmails,         \* chrome.storage.local[emails]: sequence of records
    processedMessageIds,  \* the in-memory Set, in insertion order
    geminiSession,        \* GeminiNanoService.session # null
    mailboxHistoryId,     \* the provider's current history id
    frame,                \* per invocation: the locals of checkGmailForNewMessages
    popupInbox,           \* NEW_EMAILS batches sent to the popup, in order
    notifications,        \* chrome.notifications.create calls: the counts shown
    sqliteIds,            \* message ids upserted into the SQLite store
    nlpDaemonEnabled,     \* the stored NLP-storage setting
    triggers,             \* triggers so far
    pushedIds,            \* ids pushed into a batch since the service worker started
    maxObserved,          \* the largest cursor any fetch response has carried
    \* one caller of GeminiNanoService.summarize
    sumPc,                \* "idle" | "isAvailable" | "create" | "prompt"
    sumElapsed,           \* ms since session.prompt was called
    initPromise,          \* gemini.ts initPromise: "none" | "pending" | "resolved" | "rejected"
    sumResult,            \* the text the last call resolved to, "none" while pending
    sumRejected,          \* the last call rejected towards its caller
    sumOutcome,           \* what happened inside the last call
    sumCalls,             \* calls so far
    \* the offscreen document and the RPCs into it
    ensureVariant,        \* "ready" (part_010) | "document" (background-db-integration.ts)
    offscreenCreation,    \* part_010: offscreenCreation # null
    offscreenCreating,    \* background-db-integration.ts: the boolean flag
    offscreenInstances,   \* offscreen documents alive
    rpc,                  \* per caller: where its RPC stands
    rpcCalls,             \* RPCs started so far
    \* the SQLite store inside the offscreen document
    dbVariant,            \* "lib" (lib/db.ts) | "keypoints" (part_013, first module)
    dbAlive,              \* the offscreen document exists
    db,                   \* the in-memory Database: "null" | "open"
    dbInitBy,             \* who awaits initSqlJs: "none" | "load" | "command"
    email_summaries,      \* lib/db.ts: the rows of table email_summaries
    key_points,           \* part_013: the rows of table key_points
    email_metadata,       \* part_013: the rows of table email_metadata
    hostImage,            \* chrome.storage.local[sqlite_db]
    dbClock,              \* Date.now()
    dbCmd,                \* the command the listener is handling
    dbLast,               \* the last response sent, with what was true then
    dbAcked,              \* rows whose write was answered with success
    dbDeletedAck,         \* email ids whose delete was answered with success
    dbWritten,            \* per message id, the fields last written to this database
    dbCalls,              \* commands so far
    dbTeardowns,          \* teardowns of the offscreen document so far
    \* the audit trail
    auditLogs,            \* privacy-audit.ts: the array auditLogs
    auditLogged,          \* logAuditEvent calls so far
    \* the deterministic filter
    filterVariant,        \* "wink" (preprocess.ts 10-102) | "mock" (preprocess.ts 197-250)
    rawEmailText,         \* the text given to preprocessEmailForLLM, as tokens
    customEntities,       \* doc.customEntities(): the types of the entities found, in text order
    verbQuestion,         \* a sentence of the text ends with "?" and starts with an AUX or a VERB
    filterResult,         \* what preprocessEmailForLLM returned
    \* the Gmail message helpers
    headerVariant,        \* "gmail" (lib/gmail.ts extractEmailData) | "background" (background.ts parseHeaders)
    gmailCall,            \* the helper called: "extractEmailData" | "extractBody"
    gmailHeaders,         \* message.payload.headers: per header name its value, or "absent"
    gmailPayload,         \* message.payload: the tree of parts
    gmailResult,          \* what the helper returned
    \* one sync cycle run twice, the popup open and the popup closed
    popupVariant,         \* "background" | "part012"
    popupManual,          \* checkGmailForNewMessages(manual)
    cycle,                \* per popup state: storage and the locals of the cycle
    \* the delete-all user action
    delPc,                \* the DELETE_ALL_LOCAL_DATA handler's position
    delFailed,            \* clearAllDbData or clearAll threw
    sqliteRows,           \* rows in the SQLite store
    storageItems,         \* emails in chrome.storage.local
    popupPc,              \* deleteAllStoredData's position in the popup
    popupView,            \* what the popup shows
    \* PROCESS_EMAIL requests to the offscreen document
    processVariant,       \* "offscreen" (src/offscreen.ts) | "part013"
    processReq,           \* the request in flight and where it is
    processChannel,       \* envelopes passed to the request's sendResponse
    processSent,          \* envelopes sent with a sendMessage of their own
    processResult,        \* what preprocessEmailViaOffscreen returned
    processCalls,         \* requests so far
    \* the onMessage listeners of the offscreen document
    dispatchVariant,      \* "offscreen" (part_013 543-609) | "keypoints" (part_013 347-415)
    envelope,             \* the inbound envelope being dispatched
    ran,                  \* the listeners that have run on it
    answers,              \* the sendResponse calls made for it
    dispatchDb,           \* the listener's database: "null" | "open"
    dispatched,           \* envelopes so far
    \* the email list of the popup
    currentEmails,        \* popup.ts: let currentEmails, emails numbered in the order received
    emailsList,           \* DOM.emailsList: the emails shown, top first
    receivedEmails,       \* the emails of every NEW_EMAILS batch since the list was last emptied
    \* the commands of the popup handled while cycles run
    commands,             \* CLEAR_HISTORY, TOGGLE_NLP_STORAGE and DELETE_ALL_LOCAL_DATA envelopes handled
    historyCleared,       \* a CLEAR_HISTORY was handled
    deletePc              \* the DELETE_ALL_LOCAL_DATA handler: "idle" | "clearAll"

\* The summarizer taken by itself.
sumVars == << sumPc, sumElapsed, initPromise, sumResult, sumRejected,
              sumOutcome, sumCalls >>

\* The offscreen document manager.
offVars == << ensureVariant, offscreenCreation, offscreenCreating,
              offscreenInstances, rpc, rpcCalls >>

\* The SQLite store.
dbVars == << dbVariant, dbAlive, db, dbInitBy, email_summaries, key_points,
             email_metadata, hostImage, dbClock, dbCmd, dbLast, dbAcked,
             dbDeletedAck, dbWritten, dbCalls, dbTeardowns >>

\* The audit trail.
auditVars == << auditLogs, auditLogged >>

\* The deterministic filter.
filterVars == << filterVariant, rawEmailText, customEntities, verbQuestion,
                filterResult >>

\* The Gmail message helpers.
gmailVars == << headerVariant, gmailCall, gmailHeaders, gmailPayload, gmailResult >>

\* One sync cycle run twice, the popup open and the popup closed.
popupVars == << popupVariant, popupManual, cycle >>

\* The delete-all user action.
deleteVars == << delPc, delFailed, sqliteRows, storageItems, popupPc, popupView >>

\* PROCESS_EMAIL requests to the offscreen document.
processVars == << processVariant, processReq, processChannel, processSent, processResult, processCalls >>

\* The onMessage listeners of the offscreen document.
dispatchVars == << dispatchVariant, envelope, ran, answers, dispatchDb, dispatched >>

\* The email list of the popup.
listVars == << currentEmails, emailsList, receivedEmails >>

\* The commands of the popup handled while cycles run.
controlVars == << commands, historyCleared, deletePc >>

\* Everything outside the sync orchestrator.
components == << sumVars, offVars, dbVars, auditVars,
                  filterVars,
                  gmailVars,
                  popupVars,
                  deleteVars,
                  processVars,
                  dispatchVars,
                  listVars,
                  controlVars >>

\* The sync orchestrator's state, its summarizer left out.
orchestrator == << variant, syncStatus, storedHistoryId, storedEmails,
                   processedMessageIds, mailboxHistoryId, frame, popupInbox,
                   notifications, sqliteIds, nlpDaemonEnabled, triggers,
                   pushedIds, maxObserved >>

vars == << orchestrator, summarizer, geminiSession, components >>

\* What a step of one component leaves alone.
outsideSummarize == << orchestrator, offVars, dbVars, auditVars,
                        filterVars,
                        gmailVars,
                        popupVars,
                        deleteVars,
                        processVars,
                        dispatchVars,
                        listVars,
                        controlVars >>
outsideOffscreen == << orchestrator, summarizer, geminiSession, sumVars,
                       dbVars, auditVars,
                        filterVars,
                        gmailVars,
                        popupVars,
                        deleteVars,
                        processVars,
                        dispatchVars,
                        listVars,
                        controlVars >>
outsideDb == << orchestrator, summarizer, geminiSession, sumVars, offVars,
                auditVars,
                 filterVars,
                 gmailVars,
                 popupVars,
                 deleteVars,
                 processVars,
                 dispatchVars,
                 listVars,
                 controlVars >>
outsideAudit == << orchestrator, summarizer, geminiSession, sumVars, offVars,
                   dbVars,
                    filterVars,
                    gmailVars,
                    popupVars,
                    deleteVars,
                    processVars,
                    dispatchVars,
                    listVars,
                    controlVars >>
outsideFilter == << orchestrator, summarizer, geminiSession, sumVars,
                    offVars, dbVars, auditVars,
                     gmailVars,
                     popupVars,
                     deleteVars,
                     processVars,
                     dispatchVars,
                     listVars,
                     controlVars >>
outsideGmail == << orchestrator, summarizer, geminiSession, sumVars, offVars,
                   dbVars, auditVars, filterVars,
                    popupVars,
                    deleteVars,
                    processVars,
                    dispatchVars,
                    listVars,
                    controlVars >>
outsidePopup == << orchestrator, summarizer, geminiSession, sumVars, offVars,
                   dbVars, auditVars, filterVars, gmailVars,
                    deleteVars,
                    processVars,
                    dispatchVars,
                    listVars,
                    controlVars >>
outsideDelete == << orchestrator, summarizer, geminiSession, sumVars,
                    offVars, dbVars, auditVars, filterVars, gmailVars,
                    popupVars,
                     processVars,
                     dispatchVars,
                     listVars,
                     controlVars >>
outsideProcess == << orchestrator, summarizer, geminiSession, sumVars,
                     offVars, dbVars, auditVars, filterVars, gmailVars,
                     popupVars, deleteVars,
                      dispatchVars,
                      listVars,
                      controlVars >>
outsideDispatch == << orchestrator, summarizer, geminiSession, sumVars,
                      offVars, dbVars, auditVars, filterVars, gmailVars,
                      popupVars, deleteVars, processVars,
                       listVars,
                       controlVars >>
outsideList == << orchestrator, summarizer, geminiSession, sumVars, offVars,
                  dbVars, auditVars, filterVars, gmailVars, popupVars,
                  deleteVars, processVars, dispatchVars,
                   controlVars >>
outsideControl == << orchestrator, summarizer, geminiSession, sumVars,
                     offVars, dbVars, auditVars, filterVars, gmailVars,
                     popupVars, deleteVars, processVars, dispatchVars,
                     listVars >>

\* No direct call of summarize is under way.
SummarizeIdle ==
    /\ sumPc = "idle"
    /\ sumElapsed = 0
    /\ initPromise = "none"
    /\ sumResult = "none"
    /\ sumRejected = FALSE
    /\ sumOutcome = "none"
    /\ sumCalls = 0

\* The two RPC paths into the offscreen document: a DB command
\* (sendDbCommand) and PROCESS_EMAIL (preprocessEmailViaOffscreen).
Callers == {"db", "nlp"}

\* One RPC: its position, and what its ensure-ready step came to.
NoRpc ==
    [ pc |-> "idle",
      attempt |-> 0,         \* the creation loop's attempt
      ready |-> "none",      \* "found" | "created" | "failed"
      sent |-> FALSE,        \* the envelope went out
      outcome |-> "none" ]   \* "ok" | "failed"

\* No RPC under way, no offscreen document.
OffscreenIdle ==
    /\ ensureVariant = "ready"
    /\ offscreenCreation = FALSE
    /\ offscreenCreating = FALSE
    /\ offscreenInstances = 0
    /\ rpc = [c \in Callers |-> NoRpc]
    /\ rpcCalls = 0

\* Message ids (lib/db.ts) and key-point ids (part_013): 1..MaxDbIds.
MaxDbIds == 2
\* Email ids of key points: 1..MaxEmailIds.
MaxEmailIds == 2
\* Date.now() runs over 0..MaxClock.
MaxClock == 2
\* DB commands in one behaviour.
MaxDbCmds == 4
\* Teardowns of the offscreen document in one behaviour.
MaxTeardowns == 1
\* retentionDays, in ticks of dbClock.
RetentionAge == 1

DbIds == 1 .. MaxDbIds
EmailIds == 1 .. MaxEmailIds

\* SQL NULL in an integer column.
NULL == -1

\* No write yet for a message id.
NeverWritten == [ present |-> FALSE, subject |-> NULL, summary |-> NULL ]

\* No command under way.
NoCmd == [ pc |-> "idle", type |-> "none", id |-> 0, emailId |-> 0,
           value |-> 0, image |-> << {}, {} >> ]

\* A response envelope: { success, data | error, code }, with the command it
\* answers and what was true when it was sent.
Response(msg, success, code, ids, count) ==
    [ type |-> msg.type, id |-> msg.id, emailId |-> msg.emailId,
      value |-> msg.value,
      success |-> success, code |-> code,
      ids |-> ids,             \* the ids of the rows in data
      count |-> count ]        \* totalCount / deletedCount / totalKeyPoints

NoResponse ==
    [ Response(NoCmd, FALSE, "none", {}, 0) EXCEPT !.type = "none" ]

\* No offscreen document, nothing stored, nothing asked.
DbIdle ==
    /\ dbVariant = "lib"
    /\ dbAlive = FALSE
    /\ db = "null"
    /\ dbInitBy = "none"
    /\ email_summaries = {}
    /\ key_points = {}
    /\ email_metadata = {}
    /\ hostImage = [ saved |-> FALSE, image |-> << {}, {} >> ]
    /\ dbClock = 0
    /\ dbCmd = NoCmd
    /\ dbLast = [ response |-> NoResponse, flushed |-> FALSE, generation |-> 0,
                   answered |-> 0 ]
    /\ dbAcked = {}
    /\ dbDeletedAck = {}
    /\ dbWritten = [i \in DbIds |-> NeverWritten]
    /\ dbCalls = 0
    /\ dbTeardowns = 0

\* Nothing logged.
AuditIdle ==
    /\ auditLogs = << >>
    /\ auditLogged = 0

\* The result of a call that was not made yet.
NoFilterResult ==
    [ done |-> FALSE, email_text_filtered |-> << >>, email_labels |-> {},
      droppedSpans |-> << >> ]

\* The filter was not called.
FilterIdle ==
    /\ filterVariant = "mock"
    /\ rawEmailText = << >>
    /\ customEntities = << >>
    /\ verbQuestion = FALSE
    /\ filterResult = NoFilterResult

\* The four headers the helpers read.
HeaderNames == { "Subject", "From", "To", "Date" }

\* A part without body data and without a parts array.
NoParts == [ absent |-> TRUE, list |-> << >> ]
EmptyPayload == [ mimeType |-> "multipart/mixed", data |-> "none", parts |-> NoParts ]

\* No helper was called.
NoGmailResult ==
    [ done |-> FALSE, subject |-> "none", from |-> "none", to |-> "none",
      date |-> "none", body |-> "none" ]

GmailIdle ==
    /\ headerVariant = "gmail"
    /\ gmailCall = "extractEmailData"
    /\ gmailHeaders = [n \in HeaderNames |-> "absent"]
    /\ gmailPayload = EmptyPayload
    /\ gmailResult = NoGmailResult

\* The two runs of one cycle compared for the popup's presence.
PopupStates == { "open", "closed" }

\* chrome.storage.local and the locals of a cycle that has not started.
NoCycle ==
    [ pc |-> "idle", syncStatus |-> "absent", storedHistoryId |-> 0,
      storedEmails |-> << >>, startHistoryId |-> 0, newHistoryId |-> 0,
      reported |-> {}, newEmails |-> << >>,
      fetchOk |-> FALSE,        \* the profile or history fetch resolved
      respId |-> 0,             \* the cursor its response carried; 0 = none
      sends |-> 0,              \* chrome.runtime.sendMessage calls
      ended |-> "none" ]

\* No cycle is being compared.
PopupIdle ==
    /\ popupVariant = "background"
    /\ popupManual = FALSE
    /\ cycle = [ k \in PopupStates |-> NoCycle ]

\* The popup before the user asks to delete: nothing listed, no stats shown.
NoView ==
    [ listed |-> 0,             \* currentEmails.length
      emptyState |-> TRUE,      \* DOM.emptyState shown
      daemon |-> "none",        \* DOM.daemonState: the health last received
      totalStored |-> NULL ]    \* DOM.storageStats: the count last received

\* Nobody has asked to delete.
DeleteIdle ==
    /\ delPc = "idle"
    /\ delFailed = FALSE
    /\ sqliteRows = 0
    /\ storageItems = 0
    /\ popupPc = "idle"
    /\ popupView = NoView

\* No PROCESS_EMAIL request yet.
NoRequest == [ pc |-> "idle", id |-> 0, hasData |-> FALSE, threw |-> FALSE ]

\* preprocessEmailViaOffscreen has returned nothing yet.
NoFilterAnswer == [ returned |-> FALSE, id |-> 0 ]

ProcessIdle ==
    /\ processVariant = "offscreen"
    /\ processReq = NoRequest
    /\ processChannel = << >>
    /\ processSent = << >>
    /\ processResult = NoFilterAnswer
    /\ processCalls = 0

\* No envelope has reached the offscreen listeners.
NoEnvelope == [ type |-> "none", hasData |-> FALSE, dbBefore |-> "null" ]

DispatchIdle ==
    /\ dispatchVariant = "offscreen"
    /\ envelope = NoEnvelope
    /\ ran = {}
    /\ answers = << >>
    /\ dispatchDb = "null"
    /\ dispatched = 0

\* The popup shows no email.
ListIdle ==
    /\ currentEmails = << >>
    /\ emailsList = << >>
    /\ receivedEmails = << >>

\* The popup has sent no command.
ControlIdle ==
    /\ commands = 0
    /\ historyCleared = FALSE
    /\ deletePc = "idle"

\* ---------------------------------------------------------------- helpers
Max(a, b) == IF a >= b THEN a ELSE b

Range(s) == { s[i] : i \in 1..Len(s) }

RECURSIVE SeqFromTo(_, _)
\* <<a, a+1, ..., b>>
SeqFromTo(a, b) == IF a > b THEN <<>> ELSE <<a>> \o SeqFromTo(a + 1, b)

\* EmailSummary as far as the orchestrator is concerned.
Email(id, summary) == [id |-> id, summary |-> summary]

Ids(emails) == [i \in 1..Len(emails) |-> emails[i].id]

Count(s, x) == Cardinality({ i \in 1..Len(s) : s[i] = x })

\* The locals of one invocation of checkGmailForNewMessages, and what the
\* invocation has done so far (fetched .. ended are bookkeeping).
NoFrame ==
    [ pc |-> "idle",
      startHistoryId |-> 0,
      newHistoryId |-> 0,
      messages |-> <<>>,        \* the reported messages still to handle
      newEmails |-> <<>>,       \* newEmails / results
      nlpEnabled |-> FALSE,     \* processMessages' nlpEnabled
      elapsed |-> 0,            \* ms since session.prompt was called
      bootstrap |-> FALSE,      \* the invocation read no stored cursor
      knownAtStart |-> {},      \* the ids already processed when the invocation began
      reported |-> {},          \* ids the history response reported
      fetched |-> <<>>,         \* content fetches issued, in order
      filtered |-> {},          \* ids sent to the stage-1 filter
      summarized |-> {},        \* ids for which summarize was called
      failed |-> {},            \* ids whose content fetch failed
      filterFailed |-> {},      \* ids whose stage-1 filter gave no result
      skipped |-> {},           \* ids skipped as already processed
      aborted |-> {},           \* ids whose prompt call the timer aborted
      evicted |-> {},           \* ids the trim timer evicted meanwhile
      appends |-> 0,            \* appendNewEmails calls
      sent |-> 0,               \* NEW_EMAILS messages sent
      notified |-> 0,           \* chrome.notifications.create calls
      ended |-> "none" ]        \* "idle" | "error" | "skipped" once finished

Running(p) == frame[p].pc # "idle"

\* What a finished invocation did stays visible until the next step of anyone.
Forget == [q \in Procs |-> IF Running(q) THEN frame[q] ELSE NoFrame]

\* Invocation p is now at f.
Put(p, f) == [Forget EXCEPT ![p] = f]

\* ----------------------------------------------------------- mail provider
\* getChangesSince(cursor): the ids added since `cursor`, oldest first.
\* Message i is the one whose arrival moved the mailbox from i to i + 1.
ExtractMessagesFromHistory(startHistoryId, mailbox) ==
    SeqFromTo(startHistoryId, mailbox - 1)

\* A message arrives in the mailbox.
NewMail ==
    /\ mailboxHistoryId <= MaxMsg
    /\ mailboxHistoryId' = mailboxHistoryId + 1
    /\ frame' = Forget
    /\ UNCHANGED << components, variant, summarizer, syncStatus, storedHistoryId, storedEmails,
                    processedMessageIds, pushedIds, geminiSession, popupInbox,
                    notifications, sqliteIds, nlpDaemonEnabled, triggers,
                    maxObserved >>

\* ------------------------------------------------------------- storage.ts
\* getSyncStatus: (result[STORAGE_KEY_SYNC_STATUS] as SyncStatus) || 'idle'
GetSyncStatusValue(stored) == IF stored = "absent" THEN "idle" ELSE stored

\* appendNewEmails: [...current, ...newEmails].slice(-50)
EMAILS_KEPT == 50

SliceLast(s, n) == IF Len(s) <= n THEN s ELSE SubSeq(s, Len(s) - n + 1, Len(s))

AppendedEmails(current, newEmails) == SliceLast(current \o newEmails, EMAILS_KEPT)

\* ------------------------------------------- checkGmailForNewMessages: guard
\* if (currentStatus === 'syncing') return
SyncAlreadyInProgress(currentStatus) == currentStatus = "syncing"

\* The ids already processed, as a cycle finds them: part_012's
\* processedMessageIds; background.ts keeps no such set, and the ids it has
\* pushed since the worker started are what the set would hold.
DedupSet(v, processed, pushed) ==
    IF v = "part012" THEN Range(processed) ELSE pushed

\* chrome.alarms.onAlarm / TRIGGER_SYNC_NOW: `void checkGmailForNewMessages()`.
\* The call runs up to its first await (getSyncStatus).
Trigger(p) ==
    /\ ~Running(p)
    /\ triggers < MaxTriggers
    /\ triggers' = triggers + 1
    /\ frame' = Put(p,
                    [NoFrame EXCEPT !.pc = "getSyncStatus",
                                    !.knownAtStart = DedupSet(variant, processedMessageIds,
                                                              pushedIds)])
    /\ UNCHANGED << components, variant, summarizer, syncStatus, storedHistoryId, storedEmails,
                    processedMessageIds, pushedIds, geminiSession, mailboxHistoryId,
                    popupInbox, notifications, sqliteIds, nlpDaemonEnabled,
                    maxObserved >>

\* const currentStatus = await getSyncStatus(); the guard; then the call
\* runs up to `await setSyncStatus('syncing')`.
GetSyncStatus(p) ==
    /\ frame[p].pc = "getSyncStatus"
    /\ frame' = Put(p,
                    IF SyncAlreadyInProgress(GetSyncStatusValue(syncStatus))
                    THEN [frame[p] EXCEPT !.pc = "idle", !.ended = "skipped"]
                    ELSE [frame[p] EXCEPT !.pc = "setSyncing"])
    /\ UNCHANGED << components, variant, summarizer, syncStatus, storedHistoryId, storedEmails,
                    processedMessageIds, pushedIds, geminiSession, mailboxHistoryId,
                    popupInbox, notifications, sqliteIds, nlpDaemonEnabled,
                    triggers, maxObserved >>

\* await setSyncStatus('syncing')
SetSyncing(p) ==
    /\ frame[p].pc = "setSyncing"
    /\ syncStatus' = "syncing"
    /\ frame' = Put(p, [frame[p] EXCEPT !.pc = "getAuthToken"])
    /\ UNCHANGED << components, variant, summarizer, storedHistoryId, storedEmails,
                    processedMessageIds, pushedIds, geminiSession, mailboxHistoryId,
                    popupInbox, notifications, sqliteIds, nlpDaemonEnabled,
                    triggers, maxObserved >>

\* const token = await getAuthToken(): no token (background.ts: null, then
\* setSyncStatus('error'); part_012: a rejection caught by the outer catch).
GetAuthToken(p) ==
    /\ frame[p].pc = "getAuthToken"
    /\ \E ok \in BOOLEAN :
          frame' = Put(p, [frame[p] EXCEPT !.pc =
                       IF ok THEN "getStoredHistoryId" ELSE "setError"])
    /\ UNCHANGED << components, variant, summarizer, syncStatus, storedHistoryId, storedEmails,
                    processedMessageIds, pushedIds, geminiSession, mailboxHistoryId,
                    popupInbox, notifications, sqliteIds, nlpDaemonEnabled,
                    triggers, maxObserved >>

\* const startHistoryId = await getStoredHistoryId(); if (!startHistoryId) ...
GetStoredHistoryId(p) ==
    /\ frame[p].pc = "getStoredHistoryId"
    /\ frame' = Put(p,
                    [frame[p] EXCEPT !.startHistoryId = storedHistoryId,
                              !.newHistoryId = storedHistoryId,
                              !.bootstrap = (storedHistoryId = 0),
                              !.pc = IF storedHistoryId = 0
                                     THEN "getProfile" ELSE "getHistory"])
    /\ UNCHANGED << components, variant, summarizer, syncStatus, storedHistoryId, storedEmails,
                    processedMessageIds, pushedIds, geminiSession, mailboxHistoryId,
                    popupInbox, notifications, sqliteIds, nlpDaemonEnabled,
                    triggers, maxObserved >>

\* What an action of one invocation leaves alone, by group.
settings == << variant, summarizer, nlpDaemonEnabled, components >>
outputs == << storedEmails, popupInbox, notifications, sqliteIds >>

\* ------------------------------------- checkGmailForNewMessages: decisions
\* part_012: if (processedMessageIds.has(messageId)) continue.
\* background.ts keeps no dedup set.
AlreadyProcessed(v, id, processed) ==
    v = "part012" /\ id \in Range(processed)

RECURSIVE SkipProcessed(_, _, _)
\* The loop runs on, without suspending, over the ids it skips.
SkipProcessed(v, msgs, processed) ==
    IF msgs = <<>> THEN <<>>
    ELSE IF AlreadyProcessed(v, Head(msgs), processed)
         THEN SkipProcessed(v, Tail(msgs), processed)
         ELSE msgs

\* background.ts: historyData.historyId || startHistoryId
\* part_012: historyResponse.nextHistoryId || historyResponse.historyId
NewHistoryId(v, responseHistoryId, startHistoryId) ==
    IF v = "background" /\ responseHistoryId = 0
    THEN startHistoryId ELSE responseHistoryId

\* A save rule that writes a cursor only over a stored one: with it the
\* first run of background.ts would leave the cursor absent.
SaveOnlyOverStoredCursor(v, newHistoryId, startHistoryId) ==
    startHistoryId # 0 /\ newHistoryId # 0 /\ newHistoryId # startHistoryId

\* A cycle that saves whatever it holds as the new cursor.
AlwaysSave(v, newHistoryId, startHistoryId) == TRUE

\* background.ts: if (newHistoryId && newHistoryId !== startHistoryId)
\* part_012: if (newHistoryId)
ShouldSaveHistoryId(v, newHistoryId, startHistoryId) ==
    IF v = "background"
    THEN newHistoryId # 0 /\ newHistoryId # startHistoryId
    ELSE newHistoryId # 0

\* background.ts: if (messages.length > 0) { processMessages; append; notify }
\* part_012: if (newEmails.length > 0) { append; broadcast; notification }
ShouldDeliver(v, reported, newEmails) ==
    IF v = "background" THEN reported # {} ELSE Len(newEmails) > 0

\* Where the invocation suspends next once delivery is over (background.ts)
\* or skipped.
AfterDeliveryPc(v, f) ==
    IF v = "background" /\ ShouldSaveHistoryId(v, f.newHistoryId, f.startHistoryId)
    THEN "saveHistoryId" ELSE "setIdle"

\* A cycle that returns once the cursor is saved, the status left as it is.
ReturnsAfterSave(v, f) == "idle"

\* Where it suspends next once the cursor is saved (part_012) or not.
AfterSavePc(v, f) ==
    IF v = "part012" /\ ShouldDeliver(v, f.reported, f.newEmails)
    THEN "appendNewEmails" ELSE "setIdle"

\* Where it suspends next once every reported message has been handled.
AfterLoopPc(v, f) ==
    IF v = "background"
    THEN (IF ShouldDeliver(v, f.reported, f.newEmails)
          THEN "appendNewEmails" ELSE AfterDeliveryPc(v, f))
    ELSE (IF ShouldSaveHistoryId(v, f.newHistoryId, f.startHistoryId)
          THEN "saveHistoryId" ELSE AfterSavePc(v, f))

\* The frame at its next suspension point, the head of f.messages not yet
\* looked at.
Continue(v, f, processed) ==
    LET rest == SkipProcessed(v, f.messages, processed)
        g == [f EXCEPT !.skipped = @ \cup (Range(f.messages) \ Range(rest))] IN
    IF rest # <<>>
    THEN [g EXCEPT !.messages = rest, !.pc = "getMessage"]
    ELSE [g EXCEPT !.messages = <<>>, !.pc = AfterLoopPc(v, f)]

\* A loop without its inner catch: the failure of one message reaches the
\* outer catch and ends the cycle in error.
AbortOnMessageFailure(v, f, processed) ==
    [f EXCEPT !.failed = @ \cup {Head(f.messages)}, !.pc = "setError"]

\* catch (error) { logger.error(...) } inside the loop: the message is
\* dropped from this batch and the loop goes on.
OnMessageFailure(v, f, processed) ==
    Continue(v, [f EXCEPT !.messages = Tail(@),
                          !.failed = @ \cup {Head(f.messages)}], processed)

\* processedMessageIds.add(messageId): a Set keeps the first insertion.
AddProcessed(v, processed, id) ==
    IF v = "part012" /\ id \notin Range(processed)
    THEN Append(processed, id) ELSE processed

\* newEmails.push(emailData); processedMessageIds.add(messageId)
Pushed(f, summary) ==
    [f EXCEPT !.newEmails = Append(@, Email(Head(f.messages), summary)),
              !.messages = Tail(@),
              !.elapsed = 0]

\* ------------------------------------------ checkGmailForNewMessages: fetch
\* First run: the provider's current history id becomes the cursor.
GetProfile(p) ==
    /\ frame[p].pc = "getProfile"
    /\ \E ok \in BOOLEAN :
          IF ok
          THEN /\ frame' = Put(p,
                    LET f == [frame[p] EXCEPT !.newHistoryId = mailboxHistoryId] IN
                    [f EXCEPT !.pc = IF variant = "background"
                                     THEN AfterDeliveryPc(variant, f)
                                     ELSE "saveHistoryId"])
               /\ maxObserved' = Max(maxObserved, mailboxHistoryId)
          ELSE /\ frame' = Put(p, [frame[p] EXCEPT !.pc = "setError"])
               /\ UNCHANGED maxObserved
    /\ UNCHANGED << settings, outputs, syncStatus, storedHistoryId,
                    processedMessageIds, pushedIds, geminiSession, mailboxHistoryId, triggers >>

\* Poll history since the stored cursor.  The response carries the ids added
\* since then and, when hasId, the provider's current history id.
GetHistory(p) ==
    /\ frame[p].pc = "getHistory"
    /\ \E ok \in BOOLEAN, hasId \in BOOLEAN :
          IF ok
          THEN LET msgs == ExtractMessagesFromHistory(frame[p].startHistoryId,
                                                      mailboxHistoryId)
                   respId == IF hasId THEN mailboxHistoryId ELSE 0
                   f == [frame[p] EXCEPT
                            !.newHistoryId = NewHistoryId(variant, respId,
                                                          frame[p].startHistoryId),
                            !.messages = msgs,
                            !.reported = Range(msgs)]
               IN /\ frame' = Put(p,
                        IF msgs = <<>>
                        THEN [f EXCEPT !.pc = IF variant = "background"
                                              THEN AfterDeliveryPc(variant, f)
                                              ELSE "setIdle"]
                        ELSE IF variant = "background"
                             THEN [f EXCEPT !.pc = "getNlpDaemonEnabled"]
                             ELSE Continue(variant, f, processedMessageIds))
                  /\ maxObserved' = Max(maxObserved, respId)
          ELSE /\ frame' = Put(p, [frame[p] EXCEPT !.pc = "setError"])
               /\ UNCHANGED maxObserved
    /\ UNCHANGED << settings, outputs, syncStatus, storedHistoryId,
                    processedMessageIds, pushedIds, geminiSession, mailboxHistoryId, triggers >>

\* ------------------------------------------------- GeminiNanoService.summarize
\* The abort timer has fired.
TimerExpired(elapsed) == elapsed >= SUMMARIZE_TIMEOUT_MS

\* The text summarize resolves to when session.prompt is aborted.
\* types.ts: error is an AbortError -> "(Summarization timed out)".
\* gemini.ts: `(Summary failed: ${error.message})` for every error.
SummaryOnAbort(impl) ==
    IF impl = "types" THEN TIMED_OUT ELSE SUMMARY_FAILED

\* The text summarize resolves to when initialize or session.prompt rejects.
\* "gemini1" is the first GeminiNanoService of gemini.ts: `(Error: ...)`.
SummaryOnError(impl) ==
    IF impl = "types" THEN ERROR_GENERATING
    ELSE IF impl = "gemini1" THEN ERROR_PREFIXED
    ELSE SUMMARY_FAILED_ERR

\* ------------------------------------- checkGmailForNewMessages: per message
\* processMessages: const nlpEnabled = await getNlpDaemonEnabled()
GetNlpDaemonEnabled(p) ==
    /\ frame[p].pc = "getNlpDaemonEnabled"
    /\ frame' = Put(p,
                    Continue(variant, [frame[p] EXCEPT !.nlpEnabled = nlpDaemonEnabled],
                             processedMessageIds))
    /\ UNCHANGED << settings, outputs, syncStatus, storedHistoryId,
                    processedMessageIds, pushedIds, geminiSession, mailboxHistoryId,
                    triggers, maxObserved >>

\* getFullMessage / fetchMessageDetails for the head of the list.
\* "notOk": background.ts returns null and the loop continues;
\* "throws": the rejection is caught inside the loop.
GetMessage(p) ==
    /\ frame[p].pc = "getMessage"
    /\ \E r \in {"ok", "notOk", "throws"} :
          LET f == [frame[p] EXCEPT !.fetched = Append(@, Head(frame[p].messages))]
          IN frame' = Put(p,
                IF r = "ok" THEN [f EXCEPT !.pc = "preprocess"]
                ELSE OnMessageFailure(variant, f, processedMessageIds))
    /\ UNCHANGED << settings, outputs, syncStatus, storedHistoryId,
                    processedMessageIds, pushedIds, geminiSession, mailboxHistoryId,
                    triggers, maxObserved >>

\* preprocessEmailViaOffscreen, which never rejects: a result with tokens,
\* or null.  background.ts: null as well when the NLP setting is off; the
\* record is pushed, then SQLite is written if nlpEnabled.
\* part_012: with tokens summarize is called, without them the record is
\* pushed with "(Preprocessing failed)".
Preprocess(p) ==
    /\ frame[p].pc = "preprocess"
    /\ \E tokens \in BOOLEAN :
          LET id == Head(frame[p].messages)
              f == [frame[p] EXCEPT !.filtered = @ \cup {id},
                                    !.filterFailed = IF tokens THEN @ ELSE @ \cup {id}]
              processed == AddProcessed(variant, processedMessageIds, id)
          IN IF variant = "background"
             THEN /\ (~nlpDaemonEnabled => ~tokens)
                  /\ frame' = Put(p,
                        LET g == Pushed([f EXCEPT !.filtered =
                                            IF nlpDaemonEnabled THEN @ ELSE frame[p].filtered],
                                        IF tokens THEN AI_PREFIXED ELSE SNIPPET)
                        IN IF f.nlpEnabled THEN [g EXCEPT !.pc = "persist"]
                           ELSE Continue(variant, g, processedMessageIds))
                  /\ pushedIds' = pushedIds \cup {id}
                  /\ UNCHANGED processedMessageIds
             ELSE IF tokens
                  THEN /\ frame' = Put(p,
                              [f EXCEPT !.summarized = @ \cup {id},
                                        !.elapsed = 0,
                                        !.pc = IF geminiSession THEN "prompt"
                                               ELSE "initialize"])
                       /\ UNCHANGED << processedMessageIds, pushedIds >>
                  ELSE /\ frame' = Put(p,
                              Continue(variant, Pushed(f, PREPROCESSING_FAILED),
                                       processed))
                       /\ processedMessageIds' = processed
                       /\ pushedIds' = pushedIds \cup {id}
    /\ UNCHANGED << settings, outputs, syncStatus, storedHistoryId,
                    geminiSession, mailboxHistoryId, triggers, maxObserved >>

\* The record with its summary joins the batch and the id the dedup set.
Summarized(p, text, byAbort) ==
    LET id == Head(frame[p].messages)
        processed == AddProcessed(variant, processedMessageIds, id)
        f == [frame[p] EXCEPT !.aborted = IF byAbort THEN @ \cup {id} ELSE @]
    IN /\ frame' = Put(p,
                       Continue(variant, Pushed(f, text), processed))
       /\ processedMessageIds' = processed
       /\ pushedIds' = pushedIds \cup {id}

\* summarize: if (!this.session) await this.initialize()
Initialize(p) ==
    /\ frame[p].pc = "initialize"
    /\ \E ok \in BOOLEAN :
          IF ok
          THEN /\ geminiSession' = TRUE
               /\ frame' = Put(p, [frame[p] EXCEPT !.pc = "prompt"])
               /\ UNCHANGED << processedMessageIds, pushedIds >>
          ELSE /\ Summarized(p, SummaryOnError(summarizer), FALSE)
               /\ UNCHANGED geminiSession
    /\ UNCHANGED << settings, outputs, syncStatus, storedHistoryId,
                    mailboxHistoryId, triggers, maxObserved >>

\* The timeout passes while session.prompt is pending.
PromptTick(p) ==
    /\ frame[p].pc = "prompt"
    /\ ~TimerExpired(frame[p].elapsed)
    /\ frame' = Put(p, [frame[p] EXCEPT !.elapsed = @ + SUMMARIZE_TIMEOUT_MS])
    /\ UNCHANGED << settings, outputs, syncStatus, storedHistoryId,
                    processedMessageIds, pushedIds, geminiSession, mailboxHistoryId,
                    triggers, maxObserved >>

\* session.prompt resolves, or rejects, before the timer fires.
PromptSettles(p) ==
    /\ frame[p].pc = "prompt"
    /\ ~TimerExpired(frame[p].elapsed)
    /\ \E ok \in BOOLEAN :
          Summarized(p, IF ok THEN MODEL_TEXT ELSE SummaryOnError(summarizer), FALSE)
    /\ UNCHANGED << settings, outputs, syncStatus, storedHistoryId,
                    geminiSession, mailboxHistoryId, triggers, maxObserved >>

\* The timer fires: controller.abort() rejects session.prompt.
PromptAborted(p) ==
    /\ frame[p].pc = "prompt"
    /\ TimerExpired(frame[p].elapsed)
    /\ Summarized(p, SummaryOnAbort(summarizer), TRUE)
    /\ UNCHANGED << settings, outputs, syncStatus, storedHistoryId,
                    geminiSession, mailboxHistoryId, triggers, maxObserved >>

\* background.ts: queueEmailMetadata + storeEmailSummary for the record just
\* pushed; a failure is caught and logged.
PersistSqlite(p) ==
    /\ frame[p].pc = "persist"
    /\ \E ok \in BOOLEAN :
          sqliteIds' = IF ok
                       THEN sqliteIds \cup {frame[p].newEmails[Len(frame[p].newEmails)].id}
                       ELSE sqliteIds
    /\ frame' = Put(p, Continue(variant, frame[p], processedMessageIds))
    /\ UNCHANGED << settings, storedEmails, popupInbox, notifications, syncStatus,
                    storedHistoryId, processedMessageIds, pushedIds, geminiSession,
                    mailboxHistoryId, triggers, maxObserved >>

\* ----------------------------------- checkGmailForNewMessages: cursor, delivery
\* await saveHistoryId(newHistoryId)
SaveHistoryId(p) ==
    /\ frame[p].pc = "saveHistoryId"
    /\ storedHistoryId' = frame[p].newHistoryId
    /\ frame' = Put(p, [frame[p] EXCEPT !.pc = AfterSavePc(variant, frame[p])])
    /\ UNCHANGED << settings, outputs, syncStatus, processedMessageIds, pushedIds,
                    geminiSession, mailboxHistoryId, triggers, maxObserved >>

\* await appendNewEmails(newEmails): the stored list is read and written
\* back with the batch appended (the read and the write are taken as one step).
AppendNewEmails(p) ==
    /\ frame[p].pc = "appendNewEmails"
    /\ storedEmails' = AppendedEmails(storedEmails, frame[p].newEmails)
    /\ frame' = Put(p, [frame[p] EXCEPT !.appends = @ + 1, !.pc = "broadcast"])
    /\ UNCHANGED << settings, popupInbox, notifications, sqliteIds, syncStatus,
                    storedHistoryId, processedMessageIds, pushedIds, geminiSession,
                    mailboxHistoryId, triggers, maxObserved >>

\* await broadcastToPopup({ type: NEW_EMAILS, data }): sent whether or not a
\* popup listens.  part_012 then creates the notification with the count.
BroadcastNewEmails(p) ==
    /\ frame[p].pc = "broadcast"
    /\ popupInbox' = Append(popupInbox, Ids(frame[p].newEmails))
    /\ IF variant = "part012"
       THEN notifications' = Append(notifications, Len(frame[p].newEmails))
       ELSE UNCHANGED notifications
    /\ frame' = Put(p,
                    [frame[p] EXCEPT !.sent = @ + 1,
                              !.notified = IF variant = "part012" THEN @ + 1 ELSE @,
                              !.pc = AfterDeliveryPc(variant, frame[p])])
    /\ UNCHANGED << settings, storedEmails, sqliteIds, syncStatus,
                    storedHistoryId, processedMessageIds, pushedIds, geminiSession,
                    mailboxHistoryId, triggers, maxObserved >>

\* await setSyncStatus('idle'): the invocation is over.
SetIdle(p) ==
    /\ frame[p].pc = "setIdle"
    /\ syncStatus' = "idle"
    /\ frame' = Put(p, [frame[p] EXCEPT !.pc = "idle", !.ended = "idle"])
    /\ UNCHANGED << settings, outputs, storedHistoryId, processedMessageIds, pushedIds,
                    geminiSession, mailboxHistoryId, triggers, maxObserved >>

\* await setSyncStatus('error'): the invocation is over.
SetError(p) ==
    /\ frame[p].pc = "setError"
    /\ syncStatus' = "error"
    /\ frame' = Put(p, [frame[p] EXCEPT !.pc = "idle", !.ended = "error"])
    /\ UNCHANGED << settings, outputs, storedHistoryId, processedMessageIds, pushedIds,
                    geminiSession, mailboxHistoryId, triggers, maxObserved >>

\* ------------------------------------------------------------ the trim timer
\* A timer that keeps the oldest ids: array.slice(0, 2500).
TrimmedOldest(processed) ==
    IF Len(processed) > TrimHighWater
    THEN SubSeq(processed, 1, TrimKeep) ELSE processed

\* if (processedMessageIds.size > 5000) keep array.slice(-2500)
Trimmed(processed) ==
    IF Len(processed) > TrimHighWater
    THEN SliceLast(processed, TrimKeep) ELSE processed

\* setInterval(..., 60 * 60 * 1000): runs between any two suspension points.
TrimTimer ==
    /\ processedMessageIds' = Trimmed(processedMessageIds)
    /\ frame' = [p \in Procs |->
                    IF Running(p)
                    THEN [frame[p] EXCEPT !.evicted =
                            @ \cup (Range(processedMessageIds)
                                       \ Range(Trimmed(processedMessageIds)))]
                    ELSE NoFrame]
    /\ UNCHANGED << settings, outputs, syncStatus, storedHistoryId, pushedIds,
                    geminiSession, mailboxHistoryId, triggers, maxObserved >>

\* ------------------------------------------------------------ service worker
\* The service worker is torn down and started again: every invocation in
\* flight and every module-level value is gone, chrome.storage.local stays.
Restart ==
    /\ frame' = [p \in Procs |-> NoFrame]
    /\ processedMessageIds' = <<>>
    /\ pushedIds' = {}
    /\ geminiSession' = FALSE
    /\ UNCHANGED << settings, outputs, syncStatus, storedHistoryId,
                    mailboxHistoryId, triggers, maxObserved >>

\* ------------------------------------------------------------ specification
Init ==
    /\ ControlIdle
    /\ ListIdle
    /\ DispatchIdle
    /\ ProcessIdle
    /\ DeleteIdle
    /\ PopupIdle
    /\ GmailIdle
    /\ FilterIdle
    /\ variant \in {"background", "part012"}
    /\ summarizer = "gemini"    \* part_012 imports './lib/ai/gemini.js'
    /\ nlpDaemonEnabled \in BOOLEAN
    /\ (variant = "part012" => nlpDaemonEnabled)
    /\ syncStatus = "absent"
    /\ storedHistoryId = 0
    /\ storedEmails = <<>>
    /\ processedMessageIds = <<>>
    /\ geminiSession = FALSE
    /\ mailboxHistoryId = 1
    /\ frame = [p \in Procs |-> NoFrame]
    /\ popupInbox = <<>>
    /\ notifications = <<>>
    /\ sqliteIds = {}
    /\ triggers = 0
    /\ pushedIds = {}
    /\ maxObserved = 0
    /\ SummarizeIdle
    /\ OffscreenIdle
    /\ DbIdle
    /\ AuditIdle

Step(p) ==
    \/ Trigger(p)
    \/ GetSyncStatus(p)
    \/ SetSyncing(p)
    \/ GetAuthToken(p)
    \/ GetStoredHistoryId(p)
    \/ GetProfile(p)
    \/ GetHistory(p)
    \/ GetNlpDaemonEnabled(p)
    \/ GetMessage(p)
    \/ Preprocess(p)
    \/ Initialize(p)
    \/ PromptTick(p)
    \/ PromptSettles(p)
    \/ PromptAborted(p)
    \/ PersistSqlite(p)
    \/ SaveHistoryId(p)
    \/ AppendNewEmails(p)
    \/ BroadcastNewEmails(p)
    \/ SetIdle(p)
    \/ SetError(p)

Next ==
    \/ \E p \in Procs : Step(p)
    \/ NewMail
    \/ TrimTimer
    \/ Restart

Spec == Init /\ [][Next]_vars

\* ------------------------------------------------------------------ claims
RECURSIVE Concat(_)
\* The batches of a sequence of batches, one after the other.
Concat(batches) ==
    IF batches = <<>> THEN <<>> ELSE Head(batches) \o Concat(Tail(batches))

\* Invocation p has passed the guard and written 'syncing'.
InCycle(p) == frame[p].pc \notin {"idle", "getSyncStatus", "setSyncing"}

\* C1: at any moment at most one sync cycle is in progress, whatever the
\* interleaving of timer ticks and manual sync requests.
C1_AtMostOneCycle == Cardinality({ p \in Procs : InCycle(p) }) <= 1

\* C2: no message id is delivered more than once: it occurs at most once in
\* the stored list and at most once in the NEW_EMAILS batches sent.
C2_NoDuplicateDelivery ==
    \A id \in MsgIds :
        /\ Count(Ids(storedEmails), id) <= 1
        /\ Count(Concat(popupInbox), id) <= 1

\* No invocation is past the guard's read, yet the stored status says one is.
Stalled ==
    /\ GetSyncStatusValue(syncStatus) = "syncing"
    /\ \A p \in Procs : frame[p].pc \in {"idle", "getSyncStatus"}

\* C3: the orchestrator never stalls: the stored status is not left at
\* 'syncing' once no cycle is in progress any more.
C3_NeverStalls == ~Stalled

\* From a stalled state every step leads to a stalled state: each later
\* trigger reads 'syncing' and returns.
StalledForever == [][Stalled => Stalled']_vars

\* C4: the stored cursor never moves backwards.
C4_CursorNeverRewound == [][storedHistoryId' >= storedHistoryId]_vars

\* C5: a cycle that found no stored cursor contacts the provider for its
\* current cursor only: it reports, fetches, filters and summarizes nothing,
\* appends nothing, sends no NEW_EMAILS and no notification; when it ends
\* idle a cursor is stored, and it ends in error only if no cursor was got.
C5_Bootstrap ==
    \A p \in Procs :
        frame[p].bootstrap =>
            /\ frame[p].reported = {}
            /\ frame[p].fetched = <<>>
            /\ frame[p].filtered = {}
            /\ frame[p].summarized = {}
            /\ frame[p].newEmails = <<>>
            /\ frame[p].appends = 0
            /\ frame[p].sent = 0
            /\ frame[p].notified = 0
            /\ (frame[p].ended = "idle" =>
                    frame[p].newHistoryId # 0 /\ storedHistoryId # 0)
            /\ (frame[p].ended = "error" => frame[p].newHistoryId = 0)

\* A bootstrap cycle ended idle with the provider's cursor stored, although
\* the mailbox already held a message.
C5_Witness ==
    \E p \in Procs :
        /\ frame[p].bootstrap
        /\ frame[p].ended = "idle"
        /\ mailboxHistoryId > 1
        /\ storedHistoryId = mailboxHistoryId

\* C6: an id already processed when the cycle starts causes, if reported
\* again, no content fetch, no filter call, no summarize call and no record
\* in the batch of that cycle.
C6_KnownIdCausesNoWork ==
    \A p \in Procs : \A id \in frame[p].knownAtStart :
        /\ id \notin Range(frame[p].fetched)
        /\ id \notin frame[p].filtered
        /\ id \notin frame[p].summarized
        /\ id \notin Range(Ids(frame[p].newEmails))

\* C7: a message whose content fetch or filter call failed takes nothing
\* else with it: every reported message is in the batch, was skipped as
\* already processed, failed its fetch, or is still to be handled; and the
\* cycle does not end in error.
C7_FailureIsPerMessage ==
    \A p \in Procs :
        /\ frame[p].reported =
              Range(Ids(frame[p].newEmails)) \cup frame[p].failed
                 \cup frame[p].skipped \cup Range(frame[p].messages)
        /\ frame[p].failed \cap Range(Ids(frame[p].newEmails)) = {}
        /\ (frame[p].failed \cup frame[p].filterFailed # {} =>
                frame[p].ended \in {"none", "idle"})

\* A cycle ended idle with one message failed and another in its batch.
C7_Witness ==
    \E p \in Procs :
        /\ frame[p].ended = "idle"
        /\ frame[p].failed # {}
        /\ frame[p].newEmails # <<>>
        /\ frame[p].sent = 1

\* C8: a message whose content fetch failed is reported again by a later
\* cycle: once the cycle has ended, the stored cursor has not moved past
\* the message unless the message has been delivered.
C8_FailedFetchRetried ==
    \A p \in Procs : \A id \in frame[p].failed :
        frame[p].ended = "idle" =>
            \/ storedHistoryId <= id
            \/ id \in Range(Ids(storedEmails))

\* C9: a cycle appends and sends NEW_EMAILS at most once, only with a
\* non-empty batch, and a cycle that ends with a non-empty batch has
\* appended it, sent it and raised the count notification.
C9_OneBatchIffNonEmpty ==
    \A p \in Procs :
        /\ frame[p].sent <= 1
        /\ frame[p].appends <= 1
        /\ (frame[p].sent = 1 \/ frame[p].appends = 1 => frame[p].newEmails # <<>>)
        /\ (frame[p].ended = "idle" /\ frame[p].newEmails # <<>> =>
                frame[p].sent = 1 /\ frame[p].appends = 1 /\ frame[p].notified = 1)

\* C10: the record of a message whose summarizer call the timer aborted
\* carries "(Summarization timed out)" and is delivered with its batch.
C10_TimedOutSentinel ==
    \A p \in Procs :
        /\ \A i \in 1..Len(frame[p].newEmails) :
              frame[p].newEmails[i].id \in frame[p].aborted =>
                  frame[p].newEmails[i].summary = TIMED_OUT
        /\ (frame[p].ended = "idle" /\ frame[p].aborted # {} =>
                /\ frame[p].aborted \subseteq Range(Ids(frame[p].newEmails))
                /\ frame[p].sent = 1)

\* ------------------------------------------- GeminiNanoService, taken by itself
\* Calls of summarize in one behaviour.
MaxCalls == 4

\* The three GeminiNanoService classes of the repository: gemini.ts 37-126
\* ("gemini1"), gemini.ts 158-291 ("gemini"), types.ts 98-280 ("types").
Summarizers == {"gemini1", "gemini", "types"}

\* Only "gemini" and "types" arm the 30 s abort timer around session.prompt.
HasAbortTimer(impl) == impl # "gemini1"

\* if (!text?.trim()) return { text: '(Empty email)' }: not in types.ts.
ReturnsEmptyEmail(impl, empty) == empty /\ impl # "types"

\* The texts summarize can resolve to without a summary from the model.
Placeholders ==
    { TIMED_OUT, ERROR_GENERATING, SUMMARY_FAILED, SUMMARY_FAILED_ERR,
      ERROR_PREFIXED, EMPTY_EMAIL }

\* A summarize without its catch: the failure reaches the caller.
RethrowSummarizeFailure(impl, byAbort) == [rejected |-> TRUE, text |-> "none"]

\* summarize's catch (error): the failure becomes a result value.
OnSummarizeFailure(impl, byAbort) ==
    [rejected |-> FALSE,
     text |-> IF byAbort THEN SummaryOnAbort(impl) ELSE SummaryOnError(impl)]

\* The call is over with a failure of the given kind.
SummarizeFails(outcome, byAbort) ==
    /\ sumResult' = OnSummarizeFailure(summarizer, byAbort).text
    /\ sumRejected' = OnSummarizeFailure(summarizer, byAbort).rejected
    /\ sumOutcome' = outcome
    /\ sumPc' = "idle"
    /\ sumElapsed' = 0

\* The call is over with the given text.
SummarizeReturns(outcome, text) ==
    /\ sumResult' = text
    /\ sumRejected' = FALSE
    /\ sumOutcome' = outcome
    /\ sumPc' = "idle"
    /\ sumElapsed' = 0

\* summarize(text, context) up to its first await.
SummarizeCall ==
    /\ sumPc = "idle"
    /\ sumCalls < MaxCalls
    /\ sumCalls' = sumCalls + 1
    /\ \E empty \in BOOLEAN :
          IF ReturnsEmptyEmail(summarizer, empty)
          THEN SummarizeReturns("empty", EMPTY_EMAIL) /\ UNCHANGED initPromise
          ELSE IF geminiSession
          THEN /\ sumPc' = "prompt"
               /\ sumElapsed' = 0
               /\ sumResult' = "none"
               /\ sumRejected' = FALSE
               /\ sumOutcome' = "none"
               /\ UNCHANGED initPromise
          ELSE IF summarizer = "gemini" /\ initPromise # "none"
          THEN \* initialize returns the promise of the earlier attempt
               SummarizeFails("unavailable", FALSE) /\ UNCHANGED initPromise
          ELSE /\ sumPc' = "isAvailable"
               /\ sumElapsed' = 0
               /\ sumResult' = "none"
               /\ sumRejected' = FALSE
               /\ sumOutcome' = "none"
               /\ initPromise' = IF summarizer = "gemini" THEN "pending" ELSE initPromise
    /\ UNCHANGED << outsideSummarize, summarizer, geminiSession >>

\* initialize: the availability check (typeof LanguageModel, capabilities()).
CheckAvailable ==
    /\ sumPc = "isAvailable"
    /\ \E answer \in {"available", "no", "throws"} :
          IF answer = "available"
          THEN /\ sumPc' = "create"
               /\ UNCHANGED << sumElapsed, sumResult, sumRejected, sumOutcome,
                               initPromise >>
          ELSE /\ SummarizeFails("unavailable", FALSE)
               /\ initPromise' = IF summarizer = "gemini" THEN "rejected" ELSE initPromise
    /\ UNCHANGED << outsideSummarize, summarizer, geminiSession, sumCalls >>

\* initialize: this.session = await languageModel.create(...)
CreateSession ==
    /\ sumPc = "create"
    /\ \E ok \in BOOLEAN :
          IF ok
          THEN /\ geminiSession' = TRUE
               /\ sumPc' = "prompt"
               /\ initPromise' = IF summarizer = "gemini" THEN "resolved" ELSE initPromise
               /\ UNCHANGED << sumElapsed, sumResult, sumRejected, sumOutcome >>
          ELSE /\ geminiSession' = FALSE
               /\ SummarizeFails("createError", FALSE)
               /\ initPromise' = IF summarizer = "gemini" THEN "rejected" ELSE initPromise
    /\ UNCHANGED << outsideSummarize, summarizer, sumCalls >>

\* The timeout passes while session.prompt is pending.
SummarizeTick ==
    /\ sumPc = "prompt"
    /\ HasAbortTimer(summarizer)
    /\ ~TimerExpired(sumElapsed)
    /\ sumElapsed' = sumElapsed + SUMMARIZE_TIMEOUT_MS
    /\ UNCHANGED << outsideSummarize, summarizer, geminiSession, sumPc, initPromise,
                    sumResult, sumRejected, sumOutcome, sumCalls >>

\* session.prompt resolves, or rejects, before any timer fires.
SummarizeSettles ==
    /\ sumPc = "prompt"
    /\ HasAbortTimer(summarizer) => ~TimerExpired(sumElapsed)
    /\ \E ok \in BOOLEAN :
          IF ok THEN SummarizeReturns("ok", MODEL_TEXT)
          ELSE SummarizeFails("promptError", FALSE)
    /\ UNCHANGED << outsideSummarize, summarizer, geminiSession, initPromise, sumCalls >>

\* The timer fires: controller.abort() rejects session.prompt.
SummarizeAborted ==
    /\ sumPc = "prompt"
    /\ HasAbortTimer(summarizer)
    /\ TimerExpired(sumElapsed)
    /\ SummarizeFails("aborted", TRUE)
    /\ UNCHANGED << outsideSummarize, summarizer, geminiSession, initPromise, sumCalls >>

\* destroy(): this.session = null; this.initPromise = null
DestroySession ==
    /\ sumPc = "idle"
    /\ geminiSession
    /\ geminiSession' = FALSE
    /\ initPromise' = "none"
    /\ UNCHANGED << outsideSummarize, summarizer, sumPc, sumElapsed, sumResult,
                    sumRejected, sumOutcome, sumCalls >>

\* The orchestrator at rest, as Init leaves it.
OrchestratorAtRest ==
    /\ variant = "part012"
    /\ nlpDaemonEnabled = TRUE
    /\ syncStatus = "absent"
    /\ storedHistoryId = 0
    /\ storedEmails = <<>>
    /\ processedMessageIds = <<>>
    /\ mailboxHistoryId = 1
    /\ frame = [p \in Procs |-> NoFrame]
    /\ popupInbox = <<>>
    /\ notifications = <<>>
    /\ sqliteIds = {}
    /\ triggers = 0
    /\ pushedIds = {}
    /\ maxObserved = 0

InitSummarize ==
    /\ ControlIdle
    /\ ListIdle
    /\ DispatchIdle
    /\ ProcessIdle
    /\ DeleteIdle
    /\ PopupIdle
    /\ GmailIdle
    /\ FilterIdle
    /\ OrchestratorAtRest
    /\ summarizer \in Summarizers
    /\ geminiSession = FALSE
    /\ SummarizeIdle
    /\ OffscreenIdle
    /\ DbIdle
    /\ AuditIdle

NextSummarize ==
    \/ SummarizeCall
    \/ CheckAvailable
    \/ CreateSession
    \/ SummarizeTick
    \/ SummarizeSettles
    \/ SummarizeAborted
    \/ DestroySession

SpecSummarize == InitSummarize /\ [][NextSummarize]_vars

\* C11: summarize never rejects towards its caller: whether the capability
\* is absent, the session cannot be created or the prompt call fails, the
\* call resolves to a result whose text is a placeholder.
C11_SummarizeNeverFails ==
    /\ ~sumRejected
    /\ (sumPc = "idle" /\ sumCalls > 0 => sumResult # "none")
    /\ (sumOutcome \in {"unavailable", "createError", "promptError", "aborted", "empty"}
            => sumResult \in Placeholders)

\* A call found the capability absent and resolved to a placeholder.
C11_Witness ==
    /\ sumOutcome = "unavailable"
    /\ sumPc = "idle"
    /\ sumResult \in Placeholders
    /\ ~sumRejected

\* --------------------------------------------- the offscreen document manager
\* RPCs in one behaviour.
MaxRpcs == 3

\* part_010: const maxAttempts = 3
MaxAttempts == 3

\* A manager without its lock: every caller runs its own creation.
NoCreationInFlight(v, promise, flag) == FALSE

\* part_010: if (offscreenCreation) return offscreenCreation
\* background-db-integration.ts: if (offscreenCreating) { while ... }
CreationInFlight(v, promise, flag) == IF v = "ready" THEN promise ELSE flag

\* A manager whose promise stays stored once the attempt has settled.
NeverCleared(promise) == promise

\* part_010: .finally(() => { offscreenCreation = null })
Finally(promise) == FALSE

\* The callers awaiting the creation another caller runs.
Waiting(c) == rpc[c].pc \in {"awaitShared", "poll"}

\* Caller c starts an RPC: sendDbCommand / preprocessEmailViaOffscreen up to
\* the first await of the ensure-ready step.
RpcCall(c) ==
    /\ rpc[c].pc = "idle"
    /\ rpcCalls < MaxRpcs
    /\ rpcCalls' = rpcCalls + 1
    /\ IF ensureVariant = "ready"
       THEN IF CreationInFlight(ensureVariant, offscreenCreation, offscreenCreating)
            THEN /\ rpc' = [rpc EXCEPT ![c] = [NoRpc EXCEPT !.pc = "awaitShared"]]
                 /\ UNCHANGED offscreenCreation
            ELSE /\ rpc' = [rpc EXCEPT ![c] = [NoRpc EXCEPT !.pc = "getContexts"]]
                 /\ offscreenCreation' = TRUE
       ELSE /\ rpc' = [rpc EXCEPT ![c] = [NoRpc EXCEPT !.pc = "getContexts"]]
            /\ UNCHANGED offscreenCreation
    /\ UNCHANGED << outsideOffscreen, ensureVariant, offscreenCreating,
                    offscreenInstances >>

\* part_010: the creation is over: .finally clears offscreenCreation, the
\* owner c and every caller awaiting the shared promise go on, or fail.
Settled(c, ready) ==
    [d \in Callers |->
        IF d = c \/ rpc[d].pc = "awaitShared"
        THEN IF ready = "failed"
             THEN [rpc[d] EXCEPT !.pc = "idle", !.ready = ready, !.outcome = "failed"]
             ELSE [rpc[d] EXCEPT !.pc = "send", !.ready = ready]
        ELSE rpc[d]]

\* await chrome.runtime.getContexts(...) resolves.
GetContexts(c) ==
    /\ rpc[c].pc = "getContexts"
    /\ IF offscreenInstances > 0
       THEN IF ensureVariant = "ready"
            THEN /\ rpc' = Settled(c, "found")
                 /\ offscreenCreation' = Finally(offscreenCreation)
                 /\ UNCHANGED offscreenCreating
            ELSE /\ rpc' = [rpc EXCEPT ![c].pc = "send", ![c].ready = "found"]
                 /\ UNCHANGED << offscreenCreation, offscreenCreating >>
       ELSE IF ensureVariant = "ready"
            THEN /\ rpc' = [rpc EXCEPT ![c].pc = "createDocument"]
                 /\ UNCHANGED << offscreenCreation, offscreenCreating >>
            ELSE IF CreationInFlight(ensureVariant, offscreenCreation, offscreenCreating)
                 THEN /\ rpc' = [rpc EXCEPT ![c].pc = "poll"]
                      /\ UNCHANGED << offscreenCreation, offscreenCreating >>
                 ELSE /\ rpc' = [rpc EXCEPT ![c].pc = "createDocument"]
                      /\ offscreenCreating' = TRUE
                      /\ UNCHANGED offscreenCreation
    /\ UNCHANGED << outsideOffscreen, ensureVariant, offscreenInstances, rpcCalls >>

\* await chrome.offscreen.createDocument(...) settles.  The platform creates
\* the document only if none exists.
CreateDocument(c) ==
    /\ rpc[c].pc = "createDocument"
    /\ \E ok \in BOOLEAN :
          /\ ok => offscreenInstances = 0
          /\ offscreenInstances' = IF ok THEN offscreenInstances + 1
                                   ELSE offscreenInstances
          /\ IF ensureVariant = "ready"
             THEN IF ok
                  THEN /\ rpc' = Settled(c, "created")
                       /\ offscreenCreation' = Finally(offscreenCreation)
                  ELSE IF rpc[c].attempt = MaxAttempts - 1
                  THEN /\ rpc' = Settled(c, "failed")
                       /\ offscreenCreation' = Finally(offscreenCreation)
                  ELSE /\ rpc' = [rpc EXCEPT ![c].pc = "backoff"]
                       /\ UNCHANGED offscreenCreation
             ELSE \* catch (err) { console.error } finally { flag = false }
                  /\ rpc' = [rpc EXCEPT ![c].pc = "send",
                                        ![c].ready = IF ok THEN "created" ELSE "failed"]
                  /\ UNCHANGED offscreenCreation
          /\ offscreenCreating' = IF ensureVariant = "document" THEN FALSE
                                  ELSE offscreenCreating
    /\ UNCHANGED << outsideOffscreen, ensureVariant, rpcCalls >>

\* part_010: await new Promise(r => setTimeout(r, backoffMs)); next attempt.
Backoff(c) ==
    /\ rpc[c].pc = "backoff"
    /\ rpc' = [rpc EXCEPT ![c].pc = "getContexts", ![c].attempt = @ + 1]
    /\ UNCHANGED << outsideOffscreen, ensureVariant, offscreenCreation,
                    offscreenCreating, offscreenInstances, rpcCalls >>

\* background-db-integration.ts: while (offscreenCreating) await ...; return
Poll(c) ==
    /\ rpc[c].pc = "poll"
    /\ ~offscreenCreating
    /\ rpc' = [rpc EXCEPT ![c].pc = "send",
                          ![c].ready = IF offscreenInstances > 0 THEN "created"
                                       ELSE "failed"]
    /\ UNCHANGED << outsideOffscreen, ensureVariant, offscreenCreation,
                    offscreenCreating, offscreenInstances, rpcCalls >>

\* chrome.runtime.sendMessage(message, callback): the envelope goes out.
SendEnvelope(c) ==
    /\ rpc[c].pc = "send"
    /\ rpc' = [rpc EXCEPT ![c].pc = "respond", ![c].sent = TRUE]
    /\ UNCHANGED << outsideOffscreen, ensureVariant, offscreenCreation,
                    offscreenCreating, offscreenInstances, rpcCalls >>

\* The callback runs: a response, or lastError / no response, which
\* rejects this call only.  Without a document there is no response.
Respond(c) ==
    /\ rpc[c].pc = "respond"
    /\ \E ok \in BOOLEAN :
          /\ ok => offscreenInstances > 0
          /\ rpc' = [rpc EXCEPT ![c].pc = "idle",
                                ![c].outcome = IF ok THEN "ok" ELSE "failed"]
    /\ UNCHANGED << outsideOffscreen, ensureVariant, offscreenCreation,
                    offscreenCreating, offscreenInstances, rpcCalls >>

\* The platform closes the offscreen document.
CloseDocument ==
    /\ offscreenInstances > 0
    /\ offscreenInstances' = 0
    /\ UNCHANGED << outsideOffscreen, ensureVariant, offscreenCreation,
                    offscreenCreating, rpc, rpcCalls >>

InitOffscreen ==
    /\ ControlIdle
    /\ ListIdle
    /\ DispatchIdle
    /\ ProcessIdle
    /\ DeleteIdle
    /\ PopupIdle
    /\ GmailIdle
    /\ FilterIdle
    /\ OrchestratorAtRest
    /\ summarizer = "gemini"
    /\ geminiSession = FALSE
    /\ SummarizeIdle
    /\ ensureVariant \in {"ready", "document"}
    /\ offscreenCreation = FALSE
    /\ offscreenCreating = FALSE
    /\ offscreenInstances = 0
    /\ rpc = [c \in Callers |-> NoRpc]
    /\ rpcCalls = 0
    /\ DbIdle
    /\ AuditIdle

RpcStep(c) ==
    \/ RpcCall(c)
    \/ GetContexts(c)
    \/ CreateDocument(c)
    \/ Backoff(c)
    \/ Poll(c)
    \/ SendEnvelope(c)
    \/ Respond(c)

NextOffscreen ==
    \/ \E c \in Callers : RpcStep(c)
    \/ CloseDocument

SpecOffscreen == InitOffscreen /\ [][NextOffscreen]_vars

\* C12: at most one createDocument call is in flight at a time and at most
\* one offscreen document exists; a caller arriving during a creation waits
\* for it instead of creating.
C12_OneCreation ==
    /\ Cardinality({ c \in Callers : rpc[c].pc \in {"createDocument", "backoff"} }) <= 1
    /\ offscreenInstances <= 1
    /\ \A c \in Callers : Waiting(c) =>
          \/ \E d \in Callers \ {c} : rpc[d].pc \in {"getContexts", "createDocument", "backoff"}
          \/ ~CreationInFlight(ensureVariant, offscreenCreation, offscreenCreating)

\* One caller's createDocument is in flight while the other caller waits.
C12_Witness ==
    \E c, d \in Callers :
        /\ rpc[c].pc = "createDocument"
        /\ Waiting(d)

\* A caller runs the creation attempt of part_010.
AttemptInFlight ==
    \E d \in Callers : rpc[d].pc \in {"getContexts", "createDocument", "backoff"}

\* C40: in part_010 the creation promise is stored only while an attempt is
\* in flight: once the attempt has settled, found, created or failed for
\* good, a call queries for the document again and, finding none, calls
\* createDocument anew.
C40_PromiseCleared ==
    [][ensureVariant = "ready" =>
          /\ ~AttemptInFlight => ~offscreenCreation
          /\ ~AttemptInFlight' => ~offscreenCreation'
          /\ \A c \in Callers :
                /\ (RpcCall(c) /\ ~AttemptInFlight) => rpc'[c].pc = "getContexts"
                /\ (GetContexts(c) /\ offscreenInstances = 0)
                      => rpc'[c].pc = "createDocument"]_vars

\* After an attempt failed for good, a later call is creating the document.
C40_Witness ==
    \E c, d \in Callers :
        /\ ensureVariant = "ready"
        /\ c # d
        /\ rpc[d].pc = "idle"
        /\ rpc[d].ready = "failed"
        /\ rpc[c].pc = "createDocument"
        /\ offscreenCreation

\* C13: an envelope is sent only by a call whose ensure-ready step ended
\* with a document found or created; a call whose step found and created
\* none sends no envelope and fails.
C13_EnvelopeAfterReady ==
    \A c \in Callers :
        /\ rpc[c].sent => rpc[c].ready \in {"found", "created"}
        /\ rpc[c].ready = "failed" => rpc[c].pc = "idle" /\ rpc[c].outcome = "failed"

\* ------------------------------------------------------- the SQLite store
\* lib/db.ts: the commands of handleDatabaseMessage, and one it does not know.
LibCommands ==
    { "DB/INITIALIZE_DB", "DB/QUEUE_EMAIL_METADATA", "DB/STORE_SUMMARY",
      "DB/LIST_RECENT_SUMMARIES", "DB/CLEAR_ALL_DATA", "DB/PING", "DB/UNKNOWN" }

\* part_013: the actions of the listener, and one it does not know.
KeyPointCommands ==
    { "DB_INSERT_KEYPOINT", "DB_QUERY_KEYPOINTS", "DB_DELETE_EMAIL",
      "DB_EXPORT_DATA", "DB_STATS", "DB_CLEAR_ALL", "DB_BOGUS" }

\* part_013: ['DB_INSERT_KEYPOINT', 'DB_DELETE_EMAIL', 'DB_CLEAR_ALL'].includes(action)
WriteCommands ==
    { "DB_INSERT_KEYPOINT", "DB_DELETE_EMAIL", "DB_CLEAR_ALL",
      "DB/QUEUE_EMAIL_METADATA", "DB/STORE_SUMMARY", "DB/CLEAR_ALL_DATA" }

\* A lib/db.ts operation that reports no code when it catches.
NoErrorCode(type) == "none"

\* The code each lib/db.ts operation reports when it catches.
LibErrorCode(type) ==
    CASE type = "DB/INITIALIZE_DB" -> "DB_INIT_FAILED"
      [] type = "DB/QUEUE_EMAIL_METADATA" -> "DB_QUEUE_METADATA_ERROR"
      [] type = "DB/STORE_SUMMARY" -> "DB_STORE_SUMMARY_ERROR"
      [] type = "DB/LIST_RECENT_SUMMARIES" -> "DB_LIST_RECENT_ERROR"
      [] type = "DB/CLEAR_ALL_DATA" -> "DB_CLEAR_ALL_ERROR"
      [] type = "DB/PING" -> "DB_PING_ERROR"
      [] OTHER -> "DB_UNKNOWN_COMMAND"

\* The codes of lib/db.ts and of the DB command listener around it.
LibErrorCodes ==
    { "DB_INIT_FAILED", "DB_QUEUE_METADATA_ERROR", "DB_STORE_SUMMARY_ERROR",
      "DB_LIST_RECENT_ERROR", "DB_CLEAR_ALL_ERROR", "DB_PING_ERROR",
      "DB_UNKNOWN_COMMAND", "OFFSCREEN_DB_ERROR" }

\* INSERT without ON CONFLICT into a table without its primary key.
PlainInsert(rows, id, column, v) ==
    rows \cup { [ [ message_id |-> id, subject |-> NULL, summary |-> NULL ]
                  EXCEPT ![column] = v ] }

\* INSERT OR REPLACE: the row is written anew, its other columns NULL.
InsertOrReplace(rows, id, column, v) ==
    { r \in rows : r.message_id # id }
        \cup { [ [ message_id |-> id, subject |-> NULL, summary |-> NULL ]
                  EXCEPT ![column] = v ] }

\* INSERT INTO email_summaries (...) VALUES (...)
\* ON CONFLICT(message_id) DO UPDATE SET column = excluded.column
Upsert(rows, id, column, v) ==
    IF \E r \in rows : r.message_id = id
    THEN { IF r.message_id = id THEN [r EXCEPT ![column] = v] ELSE r : r \in rows }
    ELSE rows \cup { [ [ message_id |-> id, subject |-> NULL, summary |-> NULL ]
                       EXCEPT ![column] = v ] }

\* lib/db.ts: one operation on an open database; msg.id = 0 is a command
\* without its payload.  The result: the table, and the response.
HandleLib(msg, rows) ==
    CASE msg.type \in {"DB/INITIALIZE_DB", "DB/PING"} ->
            [ rows |-> rows, response |-> Response(msg, TRUE, "none", {}, 0) ]
      [] msg.type = "DB/QUEUE_EMAIL_METADATA" ->
            IF msg.id = 0
            THEN [ rows |-> rows,
                   response |-> Response(msg, FALSE, LibErrorCode(msg.type), {}, 0) ]
            ELSE [ rows |-> Upsert(rows, msg.id, "subject", msg.value),
                   response |-> Response(msg, TRUE, "none", {}, 0) ]
      [] msg.type = "DB/STORE_SUMMARY" ->
            IF msg.id = 0
            THEN [ rows |-> rows,
                   response |-> Response(msg, FALSE, LibErrorCode(msg.type), {}, 0) ]
            ELSE [ rows |-> Upsert(rows, msg.id, "summary", msg.value),
                   response |-> Response(msg, TRUE, "none", {}, 0) ]
      [] msg.type = "DB/LIST_RECENT_SUMMARIES" ->
            [ rows |-> rows,
              response |-> Response(msg, TRUE, "none",
                                    { r.message_id : r \in rows },
                                    Cardinality(rows)) ]
      [] msg.type = "DB/CLEAR_ALL_DATA" ->
            [ rows |-> {}, response |-> Response(msg, TRUE, "none", {}, 0) ]
      [] OTHER ->
            [ rows |-> rows,
              response |-> Response(msg, FALSE, "DB_UNKNOWN_COMMAND", {}, 0) ]

\* part_013: SELECT email_id FROM email_metadata WHERE deleted_at IS NOT NULL
SoftDeleted(meta) == { m.email_id : m \in { r \in meta : r.deleted_at # NULL } }

\* part_013: FROM key_points WHERE email_id NOT IN (the soft-deleted ones)
Visible(kp, meta) == { r \in kp : r.email_id \notin SoftDeleted(meta) }

\* part_013: UPDATE email_metadata SET deleted_at = ? WHERE email_id = ?
MarkDeleted(meta, emailId, now) ==
    { IF r.email_id = emailId THEN [r EXCEPT !.deleted_at = now] ELSE r : r \in meta }

\* part_013: the switch of the listener on a command, with the handlers it
\* calls.  open: db # null.  threw: the switch threw into the outer catch.
HandleKeyPoints(msg, open, kp, meta, now) ==
    LET same == [ kp |-> kp, meta |-> meta, threw |-> FALSE,
                  response |-> NoResponse ]
        fail(code) == [ same EXCEPT !.response = Response(msg, FALSE, code, {}, 0) ]
    IN
    CASE msg.type = "DB_INSERT_KEYPOINT" ->
            IF ~open \/ (\E r \in kp : r.id = msg.id)
            THEN fail("DB_INSERT_ERROR")
            ELSE [ same EXCEPT
                     !.kp = kp \cup { [ id |-> msg.id, email_id |-> msg.emailId,
                                        extracted_at |-> now ] },
                     !.response = Response(msg, TRUE, "none", {msg.id}, 0) ]
      [] msg.type = "DB_QUERY_KEYPOINTS" ->
            IF ~open THEN fail("DB_QUERY_ERROR")
            ELSE [ same EXCEPT !.response =
                     Response(msg, TRUE, "none",
                              { r.id : r \in { x \in Visible(kp, meta) :
                                                 x.email_id = msg.emailId } }, 0) ]
      [] msg.type = "DB_DELETE_EMAIL" ->
            IF ~open THEN fail("DB_DELETE_ERROR")
            ELSE [ same EXCEPT
                     !.meta = MarkDeleted(meta, msg.emailId, now),
                     !.response =
                         Response(msg, TRUE, "none", {},
                                  Cardinality({ r \in kp : r.email_id = msg.emailId })) ]
      [] msg.type = "DB_EXPORT_DATA" ->
            IF ~open THEN fail("DB_EXPORT_ERROR")
            ELSE [ same EXCEPT !.response =
                     Response(msg, TRUE, "none",
                              { r.id : r \in Visible(kp, meta) }, 0) ]
      [] msg.type = "DB_STATS" ->
            IF ~open THEN fail("DB_STATS_ERROR")
            ELSE [ same EXCEPT !.response =
                     Response(msg, TRUE, "none",
                              { r.id : r \in Visible(kp, meta) },
                              Cardinality(Visible(kp, meta))) ]
      [] msg.type = "DB_CLEAR_ALL" ->
            IF msg.value # 1 THEN fail("INVALID_TOKEN")
            ELSE IF ~open
            THEN [ fail("OFFSCREEN_ERROR") EXCEPT !.threw = TRUE ]
            ELSE [ same EXCEPT !.kp = {}, !.meta = {},
                               !.response = Response(msg, TRUE, "none", {}, 0) ]
      [] OTHER -> fail("UNKNOWN_ACTION")

\* What the response to a command says was acknowledged.
Acked(acked, r) ==
    IF ~r.success THEN acked
    ELSE IF r.type \in { "DB_INSERT_KEYPOINT", "DB/QUEUE_EMAIL_METADATA",
                         "DB/STORE_SUMMARY" }
    THEN acked \cup { [ id |-> r.id, email_id |-> r.emailId ] }
    ELSE IF r.type \in { "DB_CLEAR_ALL", "DB/CLEAR_ALL_DATA" } THEN {}
    ELSE acked

DeletedAck(deleted, r) ==
    IF ~r.success THEN deleted
    ELSE IF r.type = "DB_DELETE_EMAIL" /\ r.count > 0 THEN deleted \cup {r.emailId}
    ELSE IF r.type = "DB_CLEAR_ALL" THEN {}
    ELSE deleted

Written(written, r) ==
    IF ~r.success THEN written
    ELSE IF r.type = "DB/QUEUE_EMAIL_METADATA"
    THEN [written EXCEPT ![r.id].present = TRUE, ![r.id].subject = r.value]
    ELSE IF r.type = "DB/STORE_SUMMARY"
    THEN [written EXCEPT ![r.id].present = TRUE, ![r.id].summary = r.value]
    ELSE IF r.type = "DB/CLEAR_ALL_DATA" THEN [i \in DbIds |-> NeverWritten]
    ELSE written

\* part_013: the listener from the switch on: the handler runs, sendResponse
\* is called, and for a write command persistDatabase starts (db.export()).
\* lib/db.ts: the operation runs and the listener calls sendResponse.
HandleAndRespond(msg, open) ==
    IF dbVariant = "lib"
    THEN LET h == HandleLib(msg, email_summaries) IN
         /\ email_summaries' = h.rows
         /\ dbLast' = [ response |-> h.response,
                        flushed |-> FALSE,
                        generation |-> dbTeardowns,
                        answered |-> dbLast.answered + 1 ]
         /\ dbWritten' = Written(dbWritten, h.response)
         /\ dbAcked' = Acked(dbAcked, h.response)
         /\ dbCmd' = NoCmd
         /\ UNCHANGED << key_points, email_metadata, dbDeletedAck >>
    ELSE LET h == HandleKeyPoints(msg, open, key_points, email_metadata, dbClock) IN
         /\ key_points' = h.kp
         /\ email_metadata' = h.meta
         /\ dbLast' = [ response |-> h.response,
                        flushed |-> hostImage.saved
                                      /\ hostImage.image = << h.kp, h.meta >>,
                        generation |-> dbTeardowns,
                        answered |-> dbLast.answered + 1 ]
         /\ dbAcked' = Acked(dbAcked, h.response)
         /\ dbDeletedAck' = DeletedAck(dbDeletedAck, h.response)
         /\ dbCmd' = IF msg.type \in WriteCommands /\ ~h.threw /\ open
                     THEN [ msg EXCEPT !.pc = "persist",
                                       !.image = << h.kp, h.meta >> ]
                     ELSE NoCmd
         /\ UNCHANGED << email_summaries, dbWritten >>

\* A command reaches the listener.  part_013: if (!db && !isInitializing)
\* await initializeDatabase().  lib/db.ts: every operation awaits getDb().
Receive(msg) ==
    /\ dbAlive
    /\ dbCmd.pc = "idle"
    /\ IF dbVariant = "lib" /\ msg.type = "DB/UNKNOWN"
       THEN /\ HandleAndRespond(msg, db = "open")
            /\ UNCHANGED << db, dbInitBy >>
       ELSE IF db = "null" /\ dbInitBy = "none"
       THEN /\ dbInitBy' = "command"
            /\ dbCmd' = [ msg EXCEPT !.pc = "init" ]
            /\ UNCHANGED << db, email_summaries, key_points, email_metadata,
                            dbLast, dbAcked, dbDeletedAck, dbWritten >>
       ELSE /\ HandleAndRespond(msg, db = "open")
            /\ UNCHANGED << db, dbInitBy >>
    /\ UNCHANGED << outsideDb, dbVariant, dbAlive, hostImage, dbClock,
                    dbTeardowns >>

\* A caller sends a command.
DbCommand ==
    /\ dbCalls < MaxDbCmds
    /\ dbCalls' = dbCalls + 1
    /\ \E type \in (IF dbVariant = "lib" THEN LibCommands ELSE KeyPointCommands),
          id \in {0} \cup DbIds, emailId \in EmailIds, value \in 1 .. 2 :
          /\ id = 0 => dbVariant = "lib"
          /\ dbVariant = "lib" => emailId = 1
          /\ type \notin { "DB/QUEUE_EMAIL_METADATA", "DB/STORE_SUMMARY",
                           "DB_INSERT_KEYPOINT" } => id = 1
          /\ type \notin { "DB/QUEUE_EMAIL_METADATA", "DB/STORE_SUMMARY",
                           "DB_CLEAR_ALL" } => value = 1
          /\ type \in { "DB_EXPORT_DATA", "DB_STATS", "DB_CLEAR_ALL", "DB_BOGUS" }
                => emailId = 1
          /\ Receive([ NoCmd EXCEPT !.type = type, !.id = id,
                                    !.emailId = emailId, !.value = value ])

\* privacy-audit.ts: the daily alarm fires and sends DB_DELETE_BEFORE with
\* cutoff = Date.now() - RETENTION_MS.
RetentionSweep ==
    /\ dbVariant = "keypoints"
    /\ dbClock >= RetentionAge
    /\ dbCalls < MaxDbCmds
    /\ dbCalls' = dbCalls + 1
    /\ Receive([ NoCmd EXCEPT !.type = "DB_DELETE_BEFORE", !.id = 1,
                              !.emailId = 1,
                              !.value = dbClock - RetentionAge ])

\* await initSqlJs() settles: new SQL.Database(), db.run(DB_SCHEMA), or the
\* failure.  For a command the listener goes on, or answers the failure.
InitSettles ==
    /\ dbInitBy # "none"
    /\ \E ok \in BOOLEAN :
          /\ db' = IF ok THEN "open" ELSE "null"
          /\ dbInitBy' = "none"
          /\ IF dbInitBy = "load"
             THEN UNCHANGED << email_summaries, key_points, email_metadata,
                               dbCmd, dbLast, dbAcked, dbDeletedAck, dbWritten >>
             ELSE IF ok
             THEN HandleAndRespond(dbCmd, TRUE)
             ELSE /\ dbLast' =
                        [ response |->
                              Response(dbCmd, FALSE,
                                       IF dbVariant = "lib"
                                       THEN LibErrorCode(dbCmd.type)
                                       ELSE "OFFSCREEN_ERROR", {}, 0),
                          flushed |-> FALSE,
                          generation |-> dbTeardowns,
                          answered |-> dbLast.answered + 1 ]
                  /\ dbCmd' = NoCmd
                  /\ UNCHANGED << email_summaries, key_points, email_metadata,
                                  dbAcked, dbDeletedAck, dbWritten >>
    /\ UNCHANGED << outsideDb, dbVariant, dbAlive, hostImage, dbClock, dbCalls,
                    dbTeardowns >>

\* part_013: persistDatabase after await blob.arrayBuffer():
\* chrome.storage.local.set({ sqlite_db: ... })
PersistDatabase ==
    /\ dbCmd.pc = "persist"
    /\ hostImage' = [ saved |-> TRUE, image |-> dbCmd.image ]
    /\ dbCmd' = NoCmd
    /\ UNCHANGED << outsideDb, dbVariant, dbAlive, db, dbInitBy,
                    email_summaries, key_points, email_metadata, dbClock,
                    dbLast, dbAcked, dbDeletedAck, dbWritten, dbCalls,
                    dbTeardowns >>

\* The offscreen document is created and its modules load.  part_013 calls
\* initializeDatabase() on load; lib/db.ts waits for the first getDb().
CreateContext ==
    /\ ~dbAlive
    /\ dbAlive' = TRUE
    /\ dbInitBy' = IF dbVariant = "keypoints" THEN "load" ELSE "none"
    /\ UNCHANGED << outsideDb, dbVariant, db, email_summaries, key_points,
                    email_metadata, hostImage, dbClock, dbCmd, dbLast, dbAcked,
                    dbDeletedAck, dbWritten, dbCalls, dbTeardowns >>

\* The platform tears the offscreen document down: its memory is gone,
\* chrome.storage.local stays.
Teardown ==
    /\ dbAlive
    /\ dbTeardowns < MaxTeardowns
    /\ dbTeardowns' = dbTeardowns + 1
    /\ dbAlive' = FALSE
    /\ db' = "null"
    /\ dbInitBy' = "none"
    /\ email_summaries' = {}
    /\ key_points' = {}
    /\ email_metadata' = {}
    /\ dbCmd' = NoCmd
    /\ dbWritten' = [i \in DbIds |-> NeverWritten]
    /\ UNCHANGED << outsideDb, dbVariant, hostImage, dbClock, dbLast, dbAcked,
                    dbDeletedAck, dbCalls >>

\* Time passes.
DbTick ==
    /\ dbClock < MaxClock
    /\ dbClock' = dbClock + 1
    /\ UNCHANGED << outsideDb, dbVariant, dbAlive, db, dbInitBy,
                    email_summaries, key_points, email_metadata, hostImage,
                    dbCmd, dbLast, dbAcked, dbDeletedAck, dbWritten, dbCalls,
                    dbTeardowns >>

InitDb ==
    /\ ControlIdle
    /\ ListIdle
    /\ DispatchIdle
    /\ ProcessIdle
    /\ DeleteIdle
    /\ PopupIdle
    /\ GmailIdle
    /\ FilterIdle
    /\ OrchestratorAtRest
    /\ summarizer = "gemini"
    /\ geminiSession = FALSE
    /\ SummarizeIdle
    /\ OffscreenIdle
    /\ AuditIdle
    /\ dbVariant \in {"lib", "keypoints"}
    /\ dbAlive = FALSE
    /\ db = "null"
    /\ dbInitBy = "none"
    /\ email_summaries = {}
    /\ key_points = {}
    /\ email_metadata = {}
    /\ hostImage = [ saved |-> FALSE, image |-> << {}, {} >> ]
    /\ dbClock = 0
    /\ dbCmd = NoCmd
    /\ dbLast = [ response |-> NoResponse, flushed |-> FALSE, generation |-> 0,
                   answered |-> 0 ]
    /\ dbAcked = {}
    /\ dbDeletedAck = {}
    /\ dbWritten = [i \in DbIds |-> NeverWritten]
    /\ dbCalls = 0
    /\ dbTeardowns = 0

NextDb ==
    \/ DbCommand
    \/ RetentionSweep
    \/ InitSettles
    \/ PersistDatabase
    \/ CreateContext
    \/ Teardown
    \/ DbTick

SpecDb == InitDb /\ [][NextDb]_vars

\* lib/db.ts by itself: it has no clock-dependent column in the model, no
\* persistDatabase and no retention command.
InitDbLib == InitDb /\ dbVariant = "lib"

NextDbLib ==
    \/ DbCommand
    \/ InitSettles
    \/ CreateContext
    \/ Teardown

SpecDbLib == InitDbLib /\ [][NextDbLib]_vars

\* C14: lib/db.ts answers every command, an unknown one and one arriving
\* when the database cannot be initialised included, with a response tagged
\* success or failure; a failure carries a code of the fixed set, and an
\* unknown command the code DB_UNKNOWN_COMMAND.
C14_AlwaysTaggedResponse ==
    dbVariant = "lib" =>
        LET r == dbLast.response IN
        /\ (dbCmd.pc = "idle" /\ dbTeardowns = 0 => dbLast.answered = dbCalls)
        /\ (dbCmd.pc = "init" /\ dbTeardowns = 0 => dbLast.answered = dbCalls - 1)
        /\ (dbLast.answered > 0 =>
                /\ r.success \in BOOLEAN
                /\ (r.success => r.code = "none")
                /\ (~r.success => r.code \in LibErrorCodes)
                /\ (r.type = "DB/UNKNOWN" =>
                        ~r.success /\ r.code = "DB_UNKNOWN_COMMAND")
                /\ (r.type # "DB/UNKNOWN" /\ ~r.success =>
                        r.code = LibErrorCode(r.type)))

\* A ping was answered with its failure code: the database could not be
\* initialised.
C14_Witness ==
    /\ dbVariant = "lib"
    /\ dbLast.response.type = "DB/PING"
    /\ ~dbLast.response.success
    /\ dbLast.response.code = "DB_PING_ERROR"
    /\ db = "null"

\* C15: email_summaries holds exactly one row per message id written, with
\* the fields last written to it, and listRecentSummaries counts one row
\* per message id written, however often it was written.
C15_UpsertIdempotent ==
    dbVariant = "lib" =>
        /\ \A id \in DbIds :
              LET rows == { r \in email_summaries : r.message_id = id } IN
              IF dbWritten[id].present
              THEN rows = { [ message_id |-> id,
                              subject |-> dbWritten[id].subject,
                              summary |-> dbWritten[id].summary ] }
              ELSE rows = {}
        /\ ( /\ dbLast.response.type = "DB/LIST_RECENT_SUMMARIES"
             /\ dbLast.response.success
             /\ dbLast.generation = dbTeardowns
             => /\ dbLast.response.count
                     = Cardinality({ id \in DbIds : dbWritten[id].present })
                /\ dbLast.response.ids
                     = { id \in DbIds : dbWritten[id].present } )

\* Message 1 was written more than once, and the listing counts one row.
C15_Witness ==
    /\ dbVariant = "lib"
    /\ dbLast.response.type = "DB/LIST_RECENT_SUMMARIES"
    /\ dbLast.response.count = 1
    /\ dbWritten[1].subject = 2
    /\ dbWritten[1].summary # NULL

\* The store after upsert-metadata / upsert-summary for message id.
AfterMetadata(rows, id, v) ==
    HandleLib([ NoCmd EXCEPT !.type = "DB/QUEUE_EMAIL_METADATA", !.id = id,
                             !.emailId = 1, !.value = v ], rows).rows

AfterSummary(rows, id, v) ==
    HandleLib([ NoCmd EXCEPT !.type = "DB/STORE_SUMMARY", !.id = id,
                             !.emailId = 1, !.value = v ], rows).rows

\* C29: on every store the program reaches, upsert-metadata leaves the
\* summary of an existing row and every other row as they are,
\* upsert-summary leaves its metadata and every other row as they are, and
\* the two writes give the same store in either order.
C29_IndependentWrites ==
    dbVariant = "lib" =>
        \A id \in DbIds, a \in 1 .. 2, b \in 1 .. 2 :
            LET rows == email_summaries
                Others(t) == { r \in t : r.message_id # id }
                Row(t) == { r \in t : r.message_id = id }
            IN /\ \A r \in Row(rows) :
                    Row(AfterMetadata(rows, id, a))
                        = { [r EXCEPT !.subject = a] }
               /\ \A r \in Row(rows) :
                    Row(AfterSummary(rows, id, b))
                        = { [r EXCEPT !.summary = b] }
               /\ Others(AfterMetadata(rows, id, a)) = Others(rows)
               /\ Others(AfterSummary(rows, id, b)) = Others(rows)
               /\ AfterSummary(AfterMetadata(rows, id, a), id, b)
                     = AfterMetadata(AfterSummary(rows, id, b), id, a)

\* upsert-metadata has just been answered for a row that held a summary,
\* and the row still holds it.
C29_Witness ==
    /\ dbVariant = "lib"
    /\ dbLast.response.type = "DB/QUEUE_EMAIL_METADATA"
    /\ dbLast.response.success
    /\ dbLast.response.id = 1
    /\ dbLast.response.value = 2
    /\ dbLast.generation = dbTeardowns
    /\ \E r \in email_summaries :
          r.message_id = 1 /\ r.subject = 2 /\ r.summary # NULL

\* C16: once DB_DELETE_EMAIL was answered with success for an email with
\* key points, no query, export or stats response holds a key point of
\* that email, while its rows are still in key_points.  The offscreen
\* document is the one that answered the delete.
C16_SoftDeleteHides ==
    dbVariant = "keypoints" /\ dbTeardowns = 0 =>
        LET r == dbLast.response
            hidden == { x.id : x \in { k \in key_points :
                                         k.email_id \in dbDeletedAck } }
        IN
        /\ ( r.success /\ r.type = "DB_QUERY_KEYPOINTS"
               /\ r.emailId \in dbDeletedAck => r.ids = {} )
        /\ ( r.success /\ r.type \in {"DB_EXPORT_DATA", "DB_STATS"}
               /\ dbLast.generation = dbTeardowns => r.ids \cap hidden = {} )
        /\ ( r.success /\ r.type = "DB_DELETE_EMAIL" /\ r.count > 0
               /\ dbLast.generation = dbTeardowns
               => \E k \in key_points : k.email_id = r.emailId )

\* C17: once the retention sweep's command was handled, key_points holds
\* no row extracted before the cutoff.
C17_SweepDeletesOldRows ==
    LET r == dbLast.response IN
    r.type = "DB_DELETE_BEFORE" /\ dbLast.generation = dbTeardowns
        => \A k \in key_points : k.extracted_at >= r.value

\* C18: when a write command is answered with success, the database image
\* in chrome.storage.local already holds that write.
C18_FlushBeforeAck ==
    LET r == dbLast.response IN
    r.type \in WriteCommands /\ r.success => dbLast.flushed

\* C19: a successful query or listing returns every row whose write was
\* answered with success and that was not deleted or cleared since,
\* teardowns of the offscreen document notwithstanding.
C19_AckedRowsSurvive ==
    LET r == dbLast.response IN
    /\ ( r.success /\ r.type = "DB_QUERY_KEYPOINTS"
           => { k.id : k \in { a \in dbAcked :
                                 /\ a.email_id = r.emailId
                                 /\ a.email_id \notin dbDeletedAck } }
                 \subseteq r.ids )
    /\ ( r.success /\ r.type = "DB/LIST_RECENT_SUMMARIES"
           => { k.id : k \in dbAcked } \subseteq r.ids )

\* --------------------------------------------------------- the audit trail
\* logAuditEvent calls in one behaviour.
MaxLogged == 1003

\* privacy-audit.ts: const MAX_AUDIT_LOGS = 1000
MAX_AUDIT_LOGS == 1000

\* An array that is never shortened.
NoShift(logs) == logs

\* privacy-audit.ts: if (auditLogs.length > MAX_AUDIT_LOGS) auditLogs.shift()
ShiftOverCap(logs) ==
    IF Len(logs) > MAX_AUDIT_LOGS THEN Tail(logs) ELSE logs

\* The entry of the n-th call: its timestamp stands for the call.
AuditEntry(n, result) == [ timestamp |-> n, result |-> result ]

\* privacy-audit.ts: logAuditEvent(action, result, emailId, details).  The
\* result alternates with the call, so that entries differ.
LogAuditEvent ==
    /\ auditLogged < MaxLogged
    /\ auditLogged' = auditLogged + 1
    /\ auditLogs' =
          ShiftOverCap(Append(auditLogs,
                              AuditEntry(auditLogged + 1,
                                         IF auditLogged % 2 = 0 THEN "success"
                                         ELSE "error")))
    /\ UNCHANGED outsideAudit

\* privacy-audit.ts: getAuditLog() returns [...auditLogs]
GetAuditLog == auditLogs

InitAudit ==
    /\ ControlIdle
    /\ ListIdle
    /\ DispatchIdle
    /\ ProcessIdle
    /\ DeleteIdle
    /\ PopupIdle
    /\ GmailIdle
    /\ FilterIdle
    /\ OrchestratorAtRest
    /\ summarizer = "gemini"
    /\ geminiSession = FALSE
    /\ SummarizeIdle
    /\ OffscreenIdle
    /\ DbIdle
    /\ auditLogs = << >>
    /\ auditLogged = 0

NextAudit == LogAuditEvent

SpecAudit == InitAudit /\ [][NextAudit]_vars

\* C20: after n calls of logAuditEvent the audit log holds at most
\* MAX_AUDIT_LOGS entries, and they are the last min(n, MAX_AUDIT_LOGS)
\* events in the order they were logged.
C20_AuditRing ==
    LET kept == IF auditLogged < MAX_AUDIT_LOGS THEN auditLogged
                ELSE MAX_AUDIT_LOGS
        log == GetAuditLog
    IN
    /\ Len(log) <= MAX_AUDIT_LOGS
    /\ Len(log) = kept
    /\ \A i \in 1 .. kept : log[i].timestamp = auditLogged - kept + i

\* More events than the cap were logged: the oldest one is gone.
C20_Witness ==
    /\ auditLogged > MAX_AUDIT_LOGS
    /\ Len(auditLogs) = MAX_AUDIT_LOGS
    /\ auditLogs[1].timestamp = auditLogged - MAX_AUDIT_LOGS + 1

\* C21: once a mutating store command (insert, upsert, delete, clear-all)
\* was answered, with success or with failure, the audit log holds an entry
\* with that outcome.
C21_MutationsAudited ==
    LET r == dbLast.response IN
    r.type \in WriteCommands =>
        /\ auditLogged >= 1
        /\ \E i \in 1 .. Len(auditLogs) :
              auditLogs[i].result = IF r.success THEN "success" ELSE "error"

\* -------------------------------------------------- the deterministic filter
\* An email text is a sequence of tokens, one space between two tokens:
\*   "w"            a word that no pattern matches
\*   "."            the end of a sentence
\*   "nl"           a line break
\*   "hi"           hi | hello | dear | hey | good morning | greetings
\*   "regards"      best regards | kind regards
\*   "thanks"       thanks
\*   "cheers"       cheers
\*   "sentfrommy"   sent from my
\*   "thisemail"    this email
\*   "confidential" confidential
\* HTML markup and entities are left out: the DOMParser branch is not taken.
FilterTokens ==
    { "w", ".", "nl", "hi", "regards", "thanks", "cheers", "sentfrommy",
      "thisemail", "confidential" }

\* Tokens in one email text.
MaxTextLen == 4

RECURSIVE TextsOfLen(_)
TextsOfLen(n) ==
    IF n = 0 THEN { << >> }
    ELSE { Append(t, x) : t \in TextsOfLen(n - 1), x \in FilterTokens }

Texts == UNION { TextsOfLen(n) : n \in 0 .. MaxTextLen }

\* The positions of a token in a text.
Positions(t, x) == { i \in 1 .. Len(t) : t[i] = x }

Min(S) == CHOOSE m \in S : \A n \in S : m <= n
MaxOf(S) == CHOOSE m \in S : \A n \in S : m >= n

\* text.replace(/\s+/g, ' ').trim()
RECURSIVE CollapseWhitespace(_)
CollapseWhitespace(t) ==
    IF t = << >> THEN << >>
    ELSE IF Head(t) = "nl" THEN CollapseWhitespace(Tail(t))
    ELSE << Head(t) >> \o CollapseWhitespace(Tail(t))

\* t with the positions i..j cut out.
Cut(t, i, j) == SubSeq(t, 1, i - 1) \o SubSeq(t, j + 1, Len(t))

\* filtered.replace(/best regards[\s\S]*/i, '') and the same for kind regards
DropFromRegards(t) ==
    IF Positions(t, "regards") = {} THEN t
    ELSE SubSeq(t, 1, Min(Positions(t, "regards")) - 1)

\* filtered.replace(/thanks[\s\S]*cheers/i, ''): from the first thanks that
\* a cheers follows to the last cheers.
DropThanksCheers(t) ==
    LET starts == { i \in Positions(t, "thanks") :
                      \E j \in Positions(t, "cheers") : j > i }
    IN IF starts = {} THEN t
       ELSE Cut(t, Min(starts), MaxOf(Positions(t, "cheers")))

\* The end of the line position i is on.
LineEnd(t, i) ==
    LET breaks == { k \in Positions(t, "nl") : k > i }
    IN IF breaks = {} THEN Len(t) ELSE Min(breaks) - 1

\* filtered.replace(/this email.*confidential/i, ''): within one line, from
\* the first "this email" that a "confidential" follows to the last
\* "confidential" of that line.
DropLegalFooter(t) ==
    LET ends(i) == { j \in Positions(t, "confidential") :
                       j > i /\ j <= LineEnd(t, i) }
        starts == { i \in Positions(t, "thisemail") : ends(i) # {} }
    IN IF starts = {} THEN t
       ELSE Cut(t, Min(starts), MaxOf(ends(Min(starts))))

\* preprocess.ts 197-250: the regex filter. None of the phrases its label
\* patterns look for is among the tokens, so it finds no label.
PreprocessMock(t) ==
    LET a == DropFromRegards(t)
        b == DropThanksCheers(a)
        c == DropLegalFooter(b)
    IN [ done |-> TRUE,
         email_text_filtered |-> CollapseWhitespace(c),
         email_labels |-> {},
         droppedSpans |->
             (IF a # t THEN << "signatureBlock" >> ELSE << >>)
             \o (IF b # a THEN << "signatureBlock" >> ELSE << >>)
             \o (IF c # b THEN << "legalFooter" >> ELSE << >>) ]

\* doc.sentences().out(): a sentence ends with its "." or with the text.
RECURSIVE Sentences(_)
Sentences(t) ==
    IF t = << >> THEN << >>
    ELSE LET k == IF Positions(t, ".") = {} THEN Len(t)
                  ELSE Min(Positions(t, "."))
         IN << SubSeq(t, 1, k) >> \o Sentences(SubSeq(t, k + 1, Len(t)))

\* preprocess.ts 47-62: what the sentence loop does with sentence s when
\* kept sentences were kept so far: "keep" or the type of the dropped span.
Chatter(s, kept) ==
    IF kept = << >> /\ s[1] = "hi" THEN "greeting"
    ELSE IF s \in { << "regards" >>, << "thanks" >>, << "cheers" >> } THEN "closing"
    ELSE IF Positions(s, "sentfrommy") # {} THEN "device_signature"
    ELSE "keep"

\* preprocess.ts 43-65: sentences.forEach(...)
RECURSIVE KeepSentences(_, _, _)
KeepSentences(ss, kept, dropped) ==
    IF ss = << >> THEN [ kept |-> kept, dropped |-> dropped ]
    ELSE LET c == Chatter(Head(ss), kept) IN
         IF c = "keep"
         THEN KeepSentences(Tail(ss), Append(kept, Head(ss)), dropped)
         ELSE KeepSentences(Tail(ss), kept,
                            Append(dropped, [ type |-> c, text |-> Head(ss) ]))

\* keptSentences.join(' ')
RECURSIVE Join(_)
Join(ss) == IF ss = << >> THEN << >> ELSE Head(ss) \o Join(Tail(ss))

\* wink.ts 16-20: the custom entities getNLP teaches the model.
EntityTypes == { "deadline", "financial", "action_verb" }

\* Custom entities in one email text.
MaxEntities == 2

RECURSIVE EntitiesOfLen(_)
EntitiesOfLen(n) ==
    IF n = 0 THEN { << >> }
    ELSE { Append(es, e) : es \in EntitiesOfLen(n - 1), e \in EntityTypes }

\* preprocess.ts 72-75: entities.forEach((e) => { if
\* (doc.customEntities().item(0).type() === 'deadline') ... }): each turn of
\* the loop tests the type of item(0).
EntityLabels(entities) ==
    UNION { (IF entities[1] = "deadline" THEN { "possible_deadline" } ELSE {})
            \cup (IF entities[1] = "action_verb" THEN { "actionable" } ELSE {})
            : i \in 1 .. Len(entities) }

\* preprocess.ts 78-87: a question that starts with a verb is actionable.
QuestionLabels(question) == IF question THEN { "actionable" } ELSE {}

\* preprocess.ts 10-102: the sentence filter.
PreprocessWink(t) ==
    LET r == KeepSentences(Sentences(CollapseWhitespace(t)), << >>, << >>)
    IN [ done |-> TRUE,
         email_text_filtered |-> Join(r.kept),
         email_labels |-> EntityLabels(customEntities)
                              \cup QuestionLabels(verbQuestion),
         droppedSpans |-> r.dropped ]

\* preprocessEmailForLLM(rawEmailText)
PreprocessEmailForLLM ==
    /\ ~filterResult.done
    /\ filterResult' = IF filterVariant = "wink" THEN PreprocessWink(rawEmailText)
                       ELSE PreprocessMock(rawEmailText)
    /\ UNCHANGED << outsideFilter, filterVariant, rawEmailText, customEntities,
                    verbQuestion >>

InitFilter ==
    /\ ControlIdle
    /\ ListIdle
    /\ DispatchIdle
    /\ ProcessIdle
    /\ DeleteIdle
    /\ PopupIdle
    /\ GmailIdle
    /\ OrchestratorAtRest
    /\ summarizer = "gemini"
    /\ geminiSession = FALSE
    /\ SummarizeIdle
    /\ OffscreenIdle
    /\ DbIdle
    /\ AuditIdle
    /\ filterVariant \in {"wink", "mock"}
    /\ rawEmailText \in Texts
    /\ \/ customEntities = << >> /\ verbQuestion = FALSE
       \/ /\ filterVariant = "wink"
          /\ Len(rawEmailText) <= 2
          /\ Positions(rawEmailText, "w") # {}
          /\ customEntities \in UNION { EntitiesOfLen(n) : n \in 0 .. MaxEntities }
          /\ verbQuestion \in BOOLEAN
    /\ filterResult = NoFilterResult

NextFilter == PreprocessEmailForLLM

SpecFilter == InitFilter /\ [][NextFilter]_vars

\* s occurs in t as a run of consecutive tokens.
IsInfix(s, t) ==
    \E i \in 0 .. Len(t) - Len(s) : SubSeq(t, i + 1, i + Len(s)) = s

\* C22: the filtered text is no longer than the input, and every sentence
\* of the filtered text occurs in the input, line breaks aside.
C22_FilterNeverGrows ==
    filterResult.done =>
        /\ Len(filterResult.email_text_filtered) <= Len(rawEmailText)
        /\ \A i \in 1 .. Len(Sentences(filterResult.email_text_filtered)) :
              IsInfix(Sentences(filterResult.email_text_filtered)[i],
                      CollapseWhitespace(rawEmailText))

\* The sentences the sentence filter walks over.
InputSentences == Sentences(CollapseWhitespace(rawEmailText))

\* The spans of the result that were dropped as type.
SpansOfType(type) ==
    SelectSeq(filterResult.droppedSpans, LAMBDA d : d.type = type)

\* C32: the sentence filter drops at most one sentence as a greeting, and
\* that sentence is the first sentence of the message; a sentence at a later
\* position is never dropped as a greeting.
C32_GreetingFirstOnly ==
    (filterVariant = "wink" /\ filterResult.done) =>
        /\ Len(SpansOfType("greeting")) <= 1
        /\ Len(SpansOfType("greeting")) = 1 =>
              /\ InputSentences[1][1] = "hi"
              /\ SpansOfType("greeting")[1] = filterResult.droppedSpans[1]
              /\ SpansOfType("greeting")[1].text = InputSentences[1]

\* The drop rule sentence i of the message matches first, the greeting rule
\* being one for the first sentence only: "keep" when it matches none.
FirstMatchingRule(i) ==
    Chatter(InputSentences[i], IF i = 1 THEN << >> ELSE << << "w" >> >>)

\* The positions of the sentences that do, or do not, match a drop rule.
PositionsWhere(Test(_)) ==
    SelectSeq([ i \in 1 .. Len(InputSentences) |-> i ], Test)

\* C33: every sentence of the input is either kept or recorded once in
\* droppedSpans, in order, with the type of the first drop rule it matches
\* (greeting, then closing, then device signature) and its text; the
\* filtered text is the kept sentences in their original order, joined.
C33_SentencesPartitioned ==
    (filterVariant = "wink" /\ filterResult.done) =>
        LET kept == PositionsWhere(LAMBDA i : FirstMatchingRule(i) = "keep")
            dropped == PositionsWhere(LAMBDA i : FirstMatchingRule(i) # "keep")
        IN /\ filterResult.email_text_filtered
                 = Join([ k \in 1 .. Len(kept) |-> InputSentences[kept[k]] ])
           /\ filterResult.droppedSpans
                 = [ k \in 1 .. Len(dropped) |->
                       [ type |-> FirstMatchingRule(dropped[k]),
                         text |-> InputSentences[dropped[k]] ] ]


\* C34: the labels of the sentence filter hold possible_deadline whenever a
\* deadline entity was found in the text, and actionable whenever an
\* action_verb entity was, whatever the other entities and their order.
C34_EntityLabels ==
    (filterVariant = "wink" /\ filterResult.done) =>
        /\ (\E i \in 1 .. Len(customEntities) : customEntities[i] = "deadline")
              => "possible_deadline" \in filterResult.email_labels
        /\ (\E i \in 1 .. Len(customEntities) : customEntities[i] = "action_verb")
              => "actionable" \in filterResult.email_labels

\* C35: a run of the trim timer that finds more than TrimHighWater ids in
\* the set leaves exactly the TrimKeep most recently added ones, in their
\* order; a run that finds TrimHighWater ids or fewer leaves the set as it is.
C35_TrimKeepsNewest ==
    [][TrimTimer =>
          IF Len(processedMessageIds) > TrimHighWater
          THEN /\ Len(processedMessageIds') = TrimKeep
               /\ \A i \in 1 .. TrimKeep :
                     processedMessageIds'[i]
                        = processedMessageIds[Len(processedMessageIds) - TrimKeep + i]
          ELSE processedMessageIds' = processedMessageIds]_vars

\* The timer has trimmed the set while a cycle was running.
C35_Witness ==
    \E p \in Procs :
        /\ frame[p].evicted # {}
        /\ Len(processedMessageIds) = TrimKeep

\* -------------------------------------------------- the list of the popup
\* Emails the popup receives, emails in one batch, and the emails the list
\* keeps: currentEmails.slice(-50).
MaxReceived == 10
MaxBatch == 3
ListKept == 4

\* Array.prototype.reverse(): the array itself is reversed, and returned.
Reverse(s) == [ i \in 1 .. Len(s) |-> s[Len(s) + 1 - i] ]

\* popup.ts 296-314: displayEmails(emails)
\*   currentEmails = [...currentEmails, ...emails].slice(-50)
\*   DOM.emailsList.innerHTML = ''
\*   currentEmails.reverse().forEach(email => DOM.emailsList.appendChild(...))
DisplayedEmails(current, emails) ==
    LET list == SliceLast(current \o emails, ListKept)
    IN [ currentEmails |-> Reverse(list), emailsList |-> Reverse(list) ]

\* popup.ts 221-224: a NEW_EMAILS envelope with data reaches the popup.
ReceiveNewEmails ==
    \E n \in 1 .. MaxBatch :
        /\ Len(receivedEmails) + n <= MaxReceived
        /\ LET emails == [ i \in 1 .. n |-> Len(receivedEmails) + i ]
               shown == DisplayedEmails(currentEmails, emails)
           IN /\ currentEmails' = shown.currentEmails
              /\ emailsList' = shown.emailsList
              /\ receivedEmails' = receivedEmails \o emails
        /\ UNCHANGED outsideList

\* popup.ts 359-367: clearHistory, once CLEAR_HISTORY was answered.
ClearList ==
    /\ receivedEmails # << >>
    /\ currentEmails' = << >>
    /\ emailsList' = << >>
    /\ receivedEmails' = << >>
    /\ UNCHANGED outsideList

InitList ==
    /\ ControlIdle
    /\ DispatchIdle
    /\ ProcessIdle
    /\ DeleteIdle
    /\ PopupIdle
    /\ GmailIdle
    /\ FilterIdle
    /\ OrchestratorAtRest
    /\ summarizer = "gemini"
    /\ geminiSession = FALSE
    /\ SummarizeIdle
    /\ OffscreenIdle
    /\ DbIdle
    /\ AuditIdle
    /\ ListIdle

NextList == ReceiveNewEmails \/ ClearList

SpecList == InitList /\ [][NextList]_vars

\* C36: after any batches of NEW_EMAILS the list of the popup holds at most
\* ListKept emails, they are the ListKept most recently received ones, and
\* they are shown newest first.
C36_NewestFirst ==
    /\ Len(emailsList) <= ListKept
    /\ emailsList = Reverse(SliceLast(receivedEmails, ListKept))

\* ------------------------------------------- commands while cycles run
\* Commands of the popup the worker handles in one life.
MaxCommands == 1

\* What the orchestrator leaves alone besides the commands' own variables.
otherComponents ==
    << sumVars, offVars, dbVars, auditVars, filterVars, gmailVars, popupVars,
       deleteVars, processVars, dispatchVars, listVars >>

\* chrome.storage.local.clear(): every key is gone, so getSyncStatus gives
\* its default and getStoredHistoryId gives null.
StorageCleared ==
    /\ syncStatus' = "absent"
    /\ storedHistoryId' = 0
    /\ storedEmails' = << >>

\* background.ts 60-62: CLEAR_HISTORY: void chrome.storage.local.clear()
ClearHistory ==
    /\ commands < MaxCommands
    /\ commands' = commands + 1
    /\ historyCleared' = TRUE
    /\ StorageCleared
    /\ UNCHANGED << variant, summarizer, nlpDaemonEnabled, processedMessageIds,
                    mailboxHistoryId, frame, popupInbox, notifications,
                    sqliteIds, triggers, pushedIds, maxObserved, geminiSession,
                    deletePc, otherComponents >>

\* background.ts 65-69: TOGGLE_NLP_STORAGE: await setNlpDaemonEnabled(enabled)
ToggleNlpStorage ==
    /\ variant = "background"
    /\ commands < MaxCommands
    /\ commands' = commands + 1
    /\ \E enabled \in BOOLEAN : nlpDaemonEnabled' = enabled
    /\ UNCHANGED << variant, summarizer, syncStatus, storedHistoryId, storedEmails,
                    processedMessageIds, mailboxHistoryId, frame, popupInbox,
                    notifications, sqliteIds, triggers, pushedIds, maxObserved,
                    geminiSession, historyCleared, deletePc, otherComponents >>

\* background.ts 70-74: DELETE_ALL_LOCAL_DATA: await clearAllDbData(), which
\* rejects when the database cannot be reached; clearAll is then skipped.
DeleteAllLocalData ==
    /\ variant = "background"
    /\ deletePc = "idle"
    /\ commands < MaxCommands
    /\ commands' = commands + 1
    /\ \E ok \in BOOLEAN :
          /\ sqliteIds' = IF ok THEN {} ELSE sqliteIds
          /\ deletePc' = IF ok THEN "clearAll" ELSE "idle"
    /\ UNCHANGED << variant, summarizer, nlpDaemonEnabled, syncStatus,
                    storedHistoryId, storedEmails, processedMessageIds,
                    mailboxHistoryId, frame, popupInbox, notifications,
                    triggers, pushedIds, maxObserved, geminiSession,
                    historyCleared, otherComponents >>

\* background.ts 75: await clearAll()
DeleteClearsStorage ==
    /\ deletePc = "clearAll"
    /\ deletePc' = "idle"
    /\ StorageCleared
    /\ UNCHANGED << variant, summarizer, nlpDaemonEnabled, processedMessageIds,
                    mailboxHistoryId, frame, popupInbox, notifications,
                    sqliteIds, triggers, pushedIds, maxObserved, geminiSession,
                    commands, historyCleared, otherComponents >>

\* The worker has two triggers left, the first run has stored the cursor and
\* one message has arrived since.
InitControl ==
    /\ variant \in {"background", "part012"}
    /\ summarizer = "gemini"
    /\ nlpDaemonEnabled \in BOOLEAN
    /\ (variant = "part012" => nlpDaemonEnabled)
    /\ syncStatus = "idle"
    /\ storedHistoryId = 1
    /\ maxObserved = 1
    /\ storedEmails = <<>>
    /\ processedMessageIds = <<>>
    /\ geminiSession = FALSE
    /\ mailboxHistoryId = 2
    /\ frame = [p \in Procs |-> NoFrame]
    /\ popupInbox = <<>>
    /\ notifications = <<>>
    /\ sqliteIds = {}
    /\ triggers = MaxTriggers - 2
    /\ pushedIds = {}
    /\ SummarizeIdle
    /\ OffscreenIdle
    /\ DbIdle
    /\ AuditIdle
    /\ FilterIdle
    /\ GmailIdle
    /\ PopupIdle
    /\ DeleteIdle
    /\ ProcessIdle
    /\ DispatchIdle
    /\ ListIdle
    /\ ControlIdle

NextControl ==
    \/ \E p \in Procs : Step(p)
    \/ ClearHistory
    \/ ToggleNlpStorage
    \/ DeleteAllLocalData
    \/ DeleteClearsStorage

SpecControl == InitControl /\ [][NextControl]_vars

\* C37: while one invocation is in its cycle, an invocation that reads the
\* status at the guard returns without starting a cycle, whether or not a
\* CLEAR_HISTORY or a DELETE_ALL_LOCAL_DATA was handled in between.
C37_ClearKeepsGuard ==
    [][\A q \in Procs :
          (GetSyncStatus(q) /\ \E p \in Procs \ {q} : InCycle(p))
              => frame'[q].ended = "skipped"]_vars

\* C38: once a CLEAR_HISTORY was handled, a cursor is stored over the
\* absent one only by a bootstrap cycle, one that found no cursor at its start.
C38_CursorStaysAbsent ==
    [][(historyCleared /\ storedHistoryId = 0 /\ storedHistoryId' # 0)
          => \E p \in Procs : frame[p].pc = "saveHistoryId" /\ frame[p].bootstrap]_vars

\* C39: while the NLP-storage setting is off, the step of a message sends no
\* PROCESS_EMAIL envelope and writes nothing to the database, and the
\* message joins the batch.
C39_DisabledWritesNothing ==
    [][\A p \in Procs :
          (variant = "background" /\ ~nlpDaemonEnabled)
              => /\ Preprocess(p)
                    => /\ frame'[p].filtered = frame[p].filtered
                       /\ Len(frame'[p].newEmails) = Len(frame[p].newEmails) + 1
                 /\ PersistSqlite(p) => sqliteIds' = sqliteIds]_vars

\* ------------------------------------------------- the Gmail message helpers
\* Header values a message can carry.
HeaderValues == { "a", "b" }

\* Parts in the top-level parts array, and in a nested one.
MaxParts == 2
MaxNested == 1

\* lib/gmail.ts: the fallbacks of extractEmailData.
GmailFallback(name) ==
    CASE name = "Subject" -> "(No Subject)"
      [] name = "From" -> "Unknown Sender"
      [] name = "To" -> "Unknown Recipient"
      [] name = "Date" -> "Unknown Date"

\* background.ts: const res = { subject: '(No Subject)', from: 'Unknown',
\* to: 'Unknown', date: '' }
BackgroundFallback(name) ==
    CASE name = "Subject" -> "(No Subject)"
      [] name = "From" -> "Unknown"
      [] name = "To" -> "Unknown"
      [] name = "Date" -> ""

\* headers.find((h) => h.name === name)?.value || fallback, and the loop of
\* parseHeaders over res.
HeaderOrFallback(v, headers, name) ==
    IF headers[name] # "absent" THEN headers[name]
    ELSE IF v = "gmail" THEN GmailFallback(name)
    ELSE BackgroundFallback(name)

\* extractEmailData(message) / parseHeaders(headers)
ExtractEmailData ==
    /\ gmailCall = "extractEmailData"
    /\ ~gmailResult.done
    /\ gmailResult' =
          [ NoGmailResult EXCEPT
              !.done = TRUE,
              !.subject = HeaderOrFallback(headerVariant, gmailHeaders, "Subject"),
              !.from = HeaderOrFallback(headerVariant, gmailHeaders, "From"),
              !.to = HeaderOrFallback(headerVariant, gmailHeaders, "To"),
              !.date = HeaderOrFallback(headerVariant, gmailHeaders, "Date") ]
    /\ UNCHANGED << outsideGmail, headerVariant, gmailCall, gmailHeaders,
                    gmailPayload >>

\* Body data: base64url text, "none" when the part has none, "!" when it is
\* not valid base64.
BodyData == { "none", "QQ", "Qg", "!" }

\* part_004: decodeBase64(data): atob, or the text of the catch.
decodeBase64(data) ==
    CASE data = "QQ" -> "A"
      [] data = "Qg" -> "B"
      [] OTHER -> "(Error decoding content)"

MimeTypes == { "text/plain", "text/html", "image/png", "multipart/mixed" }
TextTypes == { "text/plain", "text/html" }

\* The parts arrays of at most n parts taken from S, and the missing array.
RECURSIVE PartLists(_, _)
PartLists(S, n) ==
    IF n = 0 THEN { << >> }
    ELSE PartLists(S, n - 1)
           \cup { Append(l, x) : l \in PartLists(S, n - 1), x \in S }

PartsOver(S, n) ==
    { NoParts } \cup { [ absent |-> FALSE, list |-> l ] : l \in PartLists(S, n) }

\* A part that is no container: it may carry body data, and has no parts.
Leaves(data) ==
    [ mimeType : { "text/plain", "image/png" }, data : { "none", data },
      parts : { NoParts } ]

\* A container: no body data of its own, and a parts array.
Containers(S, n) ==
    [ mimeType : { "multipart/mixed" }, data : { "none" },
      parts : PartsOver(S, n) ]

Nested == Leaves("Qg") \cup Containers(Leaves("QQ"), MaxNested)

\* A message is a single part with its body, or a container of parts.
Payloads ==
    [ mimeType : { "text/plain" }, data : { "none", "QQ", "!" },
      parts : { NoParts } ]
      \cup Containers(Nested, MaxParts)

\* part_004: nested && nested !== "No body content"
NestedFound(nested) == nested # "" /\ nested # "No body content"

\* part_004: extractBody(payload), the for loop from part i on.
RECURSIVE extractBody(_)
RECURSIVE SearchParts(_, _)
SearchParts(list, i) ==
    IF i > Len(list) THEN "(No body content)"
    ELSE LET part == list[i] IN
         IF part.mimeType \in TextTypes /\ part.data # "none"
         THEN decodeBase64(part.data)
         ELSE IF ~part.parts.absent /\ NestedFound(extractBody(part))
         THEN extractBody(part)
         ELSE SearchParts(list, i + 1)

extractBody(payload) ==
    IF payload.data # "none" THEN decodeBase64(payload.data)
    ELSE IF ~payload.parts.absent THEN SearchParts(payload.parts.list, 1)
    ELSE "(No body content)"

ExtractBody ==
    /\ gmailCall = "extractBody"
    /\ ~gmailResult.done
    /\ gmailResult' = [ NoGmailResult EXCEPT !.done = TRUE,
                                             !.body = extractBody(gmailPayload) ]
    /\ UNCHANGED << outsideGmail, headerVariant, gmailCall, gmailHeaders,
                    gmailPayload >>

InitGmail ==
    /\ ControlIdle
    /\ ListIdle
    /\ DispatchIdle
    /\ ProcessIdle
    /\ DeleteIdle
    /\ PopupIdle
    /\ OrchestratorAtRest
    /\ summarizer = "gemini"
    /\ geminiSession = FALSE
    /\ SummarizeIdle
    /\ OffscreenIdle
    /\ DbIdle
    /\ AuditIdle
    /\ FilterIdle
    /\ gmailResult = NoGmailResult
    /\ \/ /\ gmailCall = "extractEmailData"
          /\ headerVariant \in {"gmail", "background"}
          /\ gmailHeaders \in [HeaderNames -> {"absent"} \cup HeaderValues]
          /\ gmailPayload = EmptyPayload
       \/ /\ gmailCall = "extractBody"
          /\ headerVariant = "gmail"
          /\ gmailHeaders = [n \in HeaderNames |-> "absent"]
          /\ gmailPayload \in Payloads

NextGmail ==
    \/ ExtractEmailData
    \/ ExtractBody

SpecGmail == InitGmail /\ [][NextGmail]_vars

\* C23: subject, from, to and date are the values of the Subject, From, To
\* and Date headers where present, and "(No Subject)", "Unknown Sender",
\* "Unknown Recipient" and "Unknown Date" where absent.
C23_HeaderFallbacks ==
    gmailCall = "extractEmailData" /\ gmailResult.done =>
        LET expected(name, fallback) ==
                IF gmailHeaders[name] # "absent" THEN gmailHeaders[name]
                ELSE fallback
        IN /\ gmailResult.subject = expected("Subject", "(No Subject)")
           /\ gmailResult.from = expected("From", "Unknown Sender")
           /\ gmailResult.to = expected("To", "Unknown Recipient")
           /\ gmailResult.date = expected("Date", "Unknown Date")

\* The text parts of a payload below its top level, in depth-first order:
\* the body data of type text/plain or text/html.
RECURSIVE TextData(_)
RECURSIVE TextDataOfList(_)
TextDataOfList(list) ==
    IF list = << >> THEN << >>
    ELSE TextData(Head(list)) \o TextDataOfList(Tail(list))

TextData(part) ==
    (IF part.mimeType \in TextTypes /\ part.data # "none"
     THEN << part.data >> ELSE << >>)
    \o (IF part.parts.absent THEN << >> ELSE TextDataOfList(part.parts.list))

\* C24: extractBody returns the decoded top-level body data when there is
\* some, else the decoded data of the first text/plain or text/html part in
\* depth-first order, and "(No body content)" only when the tree holds none.
C24_FirstTextPart ==
    gmailCall = "extractBody" /\ gmailResult.done =>
        LET found == IF gmailPayload.parts.absent THEN << >>
                     ELSE TextDataOfList(gmailPayload.parts.list)
        IN IF gmailPayload.data # "none"
           THEN gmailResult.body = decodeBase64(gmailPayload.data)
           ELSE IF found # << >>
           THEN gmailResult.body = decodeBase64(found[1])
           ELSE gmailResult.body = "(No body content)"

\* ------------------------------------------------------ sends to the popup
\* chrome.runtime.sendMessage rejects when no listener is registered.
SendMessage(popup) == IF popup = "open" THEN "resolved" ELSE "rejected"

\* A broadcast whose rejection reaches the caller.
BroadcastUncaught(popup) == SendMessage(popup)

\* broadcastToPopup: try { await chrome.runtime.sendMessage(message) }
\* catch { /* popup closed, ignore */ }
broadcastToPopup(popup) ==
    IF SendMessage(popup) = "rejected" THEN "resolved" ELSE SendMessage(popup)

\* if (manual) notifyPopupSyncStatus(status): background.ts only, not awaited.
ManualSends(v, manual) == IF v = "background" /\ manual THEN 1 ELSE 0

\* The cursors a response can carry; 0 = none.
Cursors == 0 .. MaxMsg + 1

\* The popup states whose run is suspended at pc.
At(pc) == { k \in PopupStates : cycle[k].pc = pc }

\* The runs suspended at pc move to After(k), the others stay.
Advance(pc, After(_)) ==
    [ k \in PopupStates |-> IF cycle[k].pc = pc THEN After(k) ELSE cycle[k] ]

\* getSyncStatus, the guard, setSyncStatus('syncing'), the manual notice.
CycleStarts ==
    LET Started(k) ==
            IF SyncAlreadyInProgress(GetSyncStatusValue(cycle[k].syncStatus))
            THEN [cycle[k] EXCEPT !.pc = "idle", !.ended = "skipped"]
            ELSE [cycle[k] EXCEPT !.syncStatus = "syncing",
                                  !.sends = @ + ManualSends(popupVariant, popupManual),
                                  !.pc = "getAuthToken"]
    IN /\ At("getSyncStatus") # {}
       /\ cycle' = Advance("getSyncStatus", Started)
       /\ UNCHANGED << popupVariant, popupManual, outsidePopup >>

\* const token = await getAuthToken(); then getStoredHistoryId.
CycleToken ==
    \E ok \in BOOLEAN :
        LET Authed(k) ==
                IF ok
                THEN [cycle[k] EXCEPT !.startHistoryId = cycle[k].storedHistoryId,
                                      !.newHistoryId = cycle[k].storedHistoryId,
                                      !.pc = "fetch"]
                ELSE [cycle[k] EXCEPT !.pc = "setError"]
        IN /\ At("getAuthToken") # {}
           /\ cycle' = Advance("getAuthToken", Authed)
           /\ UNCHANGED << popupVariant, popupManual, outsidePopup >>

\* The profile fetch of a first run, the history fetch of a later one: the
\* same response for both runs.
CycleFetch ==
    \E ok \in BOOLEAN, respId \in Cursors, n \in 0 .. MaxMsg :
        LET v == popupVariant
            Fetched(k) ==
                LET c == [cycle[k] EXCEPT !.fetchOk = ok,
                                          !.respId = IF ok THEN respId ELSE 0] IN
                IF ~ok THEN [c EXCEPT !.pc = "setError"]
                ELSE IF c.startHistoryId = 0
                THEN LET f == [c EXCEPT !.newHistoryId =
                                   IF v = "background" /\ respId = 0
                                   THEN c.newHistoryId ELSE respId] IN
                     [f EXCEPT !.pc = IF v = "background"
                                      THEN AfterDeliveryPc(v, f)
                                      ELSE "saveHistoryId"]
                ELSE LET f == [c EXCEPT
                                  !.newHistoryId = NewHistoryId(v, respId, c.startHistoryId),
                                  !.reported = 1 .. n] IN
                     IF n = 0
                     THEN [f EXCEPT !.pc = IF v = "background"
                                           THEN AfterDeliveryPc(v, f)
                                           ELSE "setIdle"]
                     ELSE [f EXCEPT !.pc = "process"]
        IN /\ At("fetch") # {}
           /\ cycle' = Advance("fetch", Fetched)
           /\ UNCHANGED << popupVariant, popupManual, outsidePopup >>

\* processMessages / the loop over the reported messages: the ones whose
\* handling fails are left out of the batch.
CycleProcess ==
    \E kept \in SUBSET (1 .. MaxMsg) :
        LET v == popupVariant
            Kept(e) == e.id \in kept
            Processed(k) ==
                LET c == cycle[k]
                    all == [ i \in 1 .. Cardinality(c.reported) |-> Email(i, SNIPPET) ]
                    f == [c EXCEPT !.newEmails = SelectSeq(all, Kept)] IN
                [f EXCEPT !.pc = AfterLoopPc(v, f)]
        IN /\ At("process") # {}
           /\ \A k \in At("process") : kept \subseteq cycle[k].reported
           /\ cycle' = Advance("process", Processed)
           /\ UNCHANGED << popupVariant, popupManual, outsidePopup >>

\* await appendNewEmails(batch); await broadcastToPopup(NEW_EMAILS): a
\* rejection would reach the catch of checkGmailForNewMessages.
CycleDelivers ==
    LET Delivered(k) ==
            LET c == cycle[k] IN
            [c EXCEPT !.storedEmails = AppendedEmails(c.storedEmails, c.newEmails),
                      !.sends = @ + 1,
                      !.pc = IF broadcastToPopup(k) = "rejected"
                             THEN "setError"
                             ELSE AfterDeliveryPc(popupVariant, c)]
    IN /\ At("appendNewEmails") # {}
       /\ cycle' = Advance("appendNewEmails", Delivered)
       /\ UNCHANGED << popupVariant, popupManual, outsidePopup >>

\* await saveHistoryId(newHistoryId)
CycleSaves ==
    LET Saved(k) ==
            [cycle[k] EXCEPT !.storedHistoryId = cycle[k].newHistoryId,
                             !.pc = AfterSavePc(popupVariant, cycle[k])]
    IN /\ At("saveHistoryId") # {}
       /\ cycle' = Advance("saveHistoryId", Saved)
       /\ UNCHANGED << popupVariant, popupManual, outsidePopup >>

\* await setSyncStatus('idle'), the manual notice.
CycleEndsIdle ==
    LET Ended(k) ==
            [cycle[k] EXCEPT !.syncStatus = "idle",
                             !.sends = @ + ManualSends(popupVariant, popupManual),
                             !.pc = "idle", !.ended = "idle"]
    IN /\ At("setIdle") # {}
       /\ cycle' = Advance("setIdle", Ended)
       /\ UNCHANGED << popupVariant, popupManual, outsidePopup >>

\* await setSyncStatus('error'), the manual notice.
CycleEndsError ==
    LET Ended(k) ==
            [cycle[k] EXCEPT !.syncStatus = "error",
                             !.sends = @ + ManualSends(popupVariant, popupManual),
                             !.pc = "idle", !.ended = "error"]
    IN /\ At("setError") # {}
       /\ cycle' = Advance("setError", Ended)
       /\ UNCHANGED << popupVariant, popupManual, outsidePopup >>

\* The same trigger arrives over the same stored state in both runs.
InitPopup ==
    /\ ControlIdle
    /\ ListIdle
    /\ DispatchIdle
    /\ ProcessIdle
    /\ DeleteIdle
    /\ OrchestratorAtRest
    /\ summarizer = "gemini"
    /\ geminiSession = FALSE
    /\ SummarizeIdle
    /\ OffscreenIdle
    /\ DbIdle
    /\ AuditIdle
    /\ FilterIdle
    /\ GmailIdle
    /\ popupVariant \in {"background", "part012"}
    /\ popupManual \in BOOLEAN
    /\ (popupVariant = "part012" => ~popupManual)
    /\ \E status \in {"absent", "idle", "error", "syncing"}, stored \in 0 .. MaxMsg :
          cycle = [ k \in PopupStates |->
                      [NoCycle EXCEPT !.pc = "getSyncStatus",
                                      !.syncStatus = status,
                                      !.storedHistoryId = stored] ]

NextPopup ==
    \/ CycleStarts
    \/ CycleToken
    \/ CycleFetch
    \/ CycleProcess
    \/ CycleDelivers
    \/ CycleSaves
    \/ CycleEndsIdle
    \/ CycleEndsError

SpecPopup == InitPopup /\ [][NextPopup]_vars

\* C25: for the same provider responses a sync cycle ends with the same
\* status, stored cursor and stored records whether the popup is open or
\* closed: a send that finds no listener never reaches the cycle as an error.
C25_PopupInvisible ==
    (cycle["open"].ended # "none" /\ cycle["closed"].ended # "none")
        => /\ cycle["open"].ended = cycle["closed"].ended
           /\ cycle["open"].syncStatus = cycle["closed"].syncStatus
           /\ cycle["open"].storedHistoryId = cycle["closed"].storedHistoryId
           /\ cycle["open"].storedEmails = cycle["closed"].storedEmails

\* A cycle that sent a batch to a closed popup and still ended idle with the
\* cursor advanced.
C25_Witness ==
    /\ cycle["closed"].ended = "idle"
    /\ cycle["open"].ended = "idle"
    /\ cycle["closed"].newEmails # << >>
    /\ cycle["closed"].sends >= 1
    /\ cycle["closed"].storedEmails # << >>
    /\ cycle["closed"].storedHistoryId # cycle["closed"].startHistoryId

\* C28: the stored cursor changes only in a cycle whose profile or history
\* fetch succeeded and carried a cursor, and then to that cursor: a failed
\* fetch or a response without a cursor leaves the stored cursor as it was.
C28_CursorFrame ==
    [][\A k \in PopupStates :
          cycle'[k].storedHistoryId # cycle[k].storedHistoryId
              => /\ cycle[k].fetchOk
                 /\ cycle[k].respId # 0
                 /\ cycle'[k].storedHistoryId = cycle[k].respId]_vars

\* A history response that reported messages but carried no cursor: the
\* cycle has delivered them and ended with the cursor it started from.
C28_Witness ==
    \E k \in PopupStates :
        /\ cycle[k].ended = "idle"
        /\ cycle[k].fetchOk
        /\ cycle[k].respId = 0
        /\ cycle[k].storedEmails # << >>
        /\ cycle[k].startHistoryId # 0
        /\ cycle[k].storedHistoryId = cycle[k].startHistoryId

\* --------------------------------------------------- the delete-all action
\* popup.ts deleteAllStoredData: confirm(), then the message is sent.  The
\* listener of the service worker starts its async block and returns.
DeleteAllStoredData ==
    /\ popupPc = "idle"
    /\ delPc = "idle"
    /\ \E confirmed \in BOOLEAN :
          IF confirmed
          THEN popupPc' = "awaiting" /\ delPc' = "clearDb"
          ELSE popupPc' = "declined" /\ UNCHANGED delPc
    /\ UNCHANGED << delFailed, sqliteRows, storageItems, popupView, outsideDelete >>

\* await sendMessage(DELETE_ALL_LOCAL_DATA) resolves: the listener answers
\* nothing, whatever its async block does later.  currentEmails = [];
\* emailsList emptied; emptyState shown; 'All local data deleted'.
DeleteResolves ==
    /\ popupPc = "awaiting"
    /\ popupPc' = "resolved"
    /\ popupView' = [popupView EXCEPT !.listed = 0, !.emptyState = TRUE]
    /\ UNCHANGED << delPc, delFailed, sqliteRows, storageItems, outsideDelete >>

\* await clearAllDbData(): a rejection skips clearAll and is logged.
ClearAllDbData ==
    /\ delPc = "clearDb"
    /\ \E ok \in BOOLEAN :
          IF ok
          THEN sqliteRows' = 0 /\ delPc' = "clearStorage" /\ UNCHANGED delFailed
          ELSE delFailed' = TRUE /\ delPc' = "sendPrivacyStatus"
               /\ UNCHANGED sqliteRows
    /\ UNCHANGED << storageItems, popupPc, popupView, outsideDelete >>

\* await clearAll(): chrome.storage.local.clear(); a rejection is logged.
ClearAll ==
    /\ delPc = "clearStorage"
    /\ \E ok \in BOOLEAN :
          IF ok
          THEN storageItems' = 0 /\ UNCHANGED delFailed
          ELSE delFailed' = TRUE /\ UNCHANGED storageItems
    /\ delPc' = "sendPrivacyStatus"
    /\ UNCHANGED << sqliteRows, popupPc, popupView, outsideDelete >>

\* sendPrivacyStatus: enabled, health and the row count are broadcast and the
\* popup's updatePrivacyUI shows them.
SendPrivacyStatus ==
    /\ delPc = "sendPrivacyStatus"
    /\ \E enabled \in BOOLEAN, statsOk \in BOOLEAN :
          popupView' = [popupView EXCEPT
                           !.daemon = IF ~enabled THEN "stopped"
                                      ELSE IF statsOk THEN "running" ELSE "error",
                           !.totalStored = IF enabled /\ statsOk
                                           THEN sqliteRows ELSE 0]
    /\ delPc' = "done"
    /\ UNCHANGED << delFailed, sqliteRows, storageItems, popupPc, outsideDelete >>

\* The popup is open over a store and a list that hold something.
InitDelete ==
    /\ ControlIdle
    /\ ListIdle
    /\ DispatchIdle
    /\ ProcessIdle
    /\ OrchestratorAtRest
    /\ summarizer = "gemini"
    /\ geminiSession = FALSE
    /\ SummarizeIdle
    /\ OffscreenIdle
    /\ DbIdle
    /\ AuditIdle
    /\ FilterIdle
    /\ GmailIdle
    /\ PopupIdle
    /\ delPc = "idle"
    /\ delFailed = FALSE
    /\ sqliteRows \in 0 .. MaxDbIds
    /\ storageItems \in 0 .. MaxEmailIds
    /\ popupPc = "idle"
    /\ popupView = [NoView EXCEPT !.listed = storageItems,
                                  !.emptyState = (storageItems = 0)]

NextDelete ==
    \/ DeleteAllStoredData
    \/ DeleteResolves
    \/ ClearAllDbData
    \/ ClearAll
    \/ SendPrivacyStatus

SpecDelete == InitDelete /\ [][NextDelete]_vars

\* C26: when the database clear or the storage clear of the delete-all action
\* failed, the popup does not present the deletion as done (list emptied,
\* empty state shown) once both sides have finished.
C26_FailureIsShown ==
    (delPc = "done" /\ delFailed /\ popupPc = "resolved")
        => ~(popupView.listed = 0 /\ popupView.emptyState)

\* ------------------------------------------------- one service-worker life
\* The cycles of one life of the service worker: every call an invocation
\* awaits settles, so the invocation is resumed and takes its next step.
NextFair ==
    \/ \E p \in Procs : Step(p)
    \/ NewMail
    \/ TrimTimer

\* The worker has run all but one of its triggers: either no cycle got a
\* token yet (no cursor stored, status error) or the first run stored the
\* cursor and the polls since found nothing (status idle).
InitFair ==
    /\ ControlIdle
    /\ ListIdle
    /\ DispatchIdle
    /\ ProcessIdle
    /\ variant \in {"background", "part012"}
    /\ summarizer = "gemini"
    /\ nlpDaemonEnabled \in BOOLEAN
    /\ (variant = "part012" => nlpDaemonEnabled)
    /\ \/ syncStatus = "error" /\ storedHistoryId = 0 /\ maxObserved = 0
       \/ syncStatus = "idle" /\ storedHistoryId = 1 /\ maxObserved = 1
    /\ storedEmails = <<>>
    /\ processedMessageIds = <<>>
    /\ geminiSession = FALSE
    /\ mailboxHistoryId = 1
    /\ frame = [p \in Procs |-> NoFrame]
    /\ popupInbox = <<>>
    /\ notifications = <<>>
    /\ sqliteIds = {}
    /\ triggers = MaxTriggers - 1
    /\ pushedIds = {}
    /\ SummarizeIdle
    /\ OffscreenIdle
    /\ DbIdle
    /\ AuditIdle
    /\ FilterIdle
    /\ GmailIdle
    /\ PopupIdle
    /\ DeleteIdle

SpecFair == InitFair /\ [][NextFair]_vars /\ \A p \in Procs : WF_vars(Step(p))

\* Invocation p has finished by writing the status it ended with.
Ended(p) ==
    /\ frame[p].ended \in {"idle", "error"}
    /\ syncStatus = frame[p].ended

\* C27: every cycle that starts ends with the stored status set to idle or
\* error when each awaited call settles, and a cycle that found no auth
\* token or whose cursor or history fetch failed ends with the status error.
C27_CycleEnds ==
    \A p \in Procs :
        /\ InCycle(p) ~> Ended(p)
        /\ (frame[p].pc = "setError") ~> (frame[p].ended = "error" /\ syncStatus = "error")

\* A cycle whose history fetch failed has ended with the status error.
C27_Witness ==
    \E p \in Procs :
        /\ Ended(p)
        /\ frame[p].ended = "error"
        /\ frame[p].startHistoryId # 0
        /\ frame[p].reported = {}

\* ------------------------------------------- PROCESS_EMAIL in the offscreen
\* Requests one service worker sends.
MaxRequests == 3

\* { type: PROCESSED_EMAIL_RESULT, data: result } with result.id = id, or
\* { type: PROCESSED_EMAIL_RESULT, data: null, error: String(error) }; id = 0
\* stands for data: null.
ResultEnvelope(id, threw) ==
    [ type |-> "PROCESSED_EMAIL_RESULT",
      id |-> IF threw THEN 0 ELSE id,
      error |-> threw ]

\* background.ts preprocessEmailViaOffscreen: sendMessage(PROCESS_EMAIL);
\* the call waits for the response of the message.
SendProcessEmail ==
    /\ processReq.pc \in {"idle", "returned"}
    /\ processCalls < MaxRequests
    /\ processCalls' = processCalls + 1
    /\ \E id \in EmailIds, hasData \in BOOLEAN :
          processReq' = [ pc |-> "sent", id |-> id, hasData |-> hasData,
                          threw |-> FALSE ]
    /\ processChannel' = << >>
    /\ processResult' = NoFilterAnswer
    /\ UNCHANGED << processVariant, processSent, outsideProcess >>

\* The listener of the offscreen document and processEmail.
\* src/offscreen.ts: processEmail(id, text, sendResponse) answers on the
\* request's channel, in the try or in the catch, and the listener returns
\* true.  part_013: processEmail sends the envelope with sendMessage and the
\* listener returns nothing, which closes the channel.
ProcessEmail ==
    /\ processReq.pc = "sent"
    /\ \E threw \in BOOLEAN :
          /\ threw => processReq.hasData
          /\ processReq' = [processReq EXCEPT !.pc = "handled", !.threw = threw]
          /\ IF ~processReq.hasData
             THEN UNCHANGED << processChannel, processSent >>
             ELSE IF processVariant = "offscreen"
             THEN /\ processChannel' =
                        Append(processChannel, ResultEnvelope(processReq.id, threw))
                  /\ UNCHANGED processSent
             ELSE /\ processSent' =
                        Append(processSent, ResultEnvelope(processReq.id, threw))
                  /\ UNCHANGED processChannel
    /\ UNCHANGED << processVariant, processResult, processCalls, outsideProcess >>

\* await sendMessage(...) resolves with the first response on the channel,
\* or with undefined when the channel closed without one:
\* if (response && 'data' in response && response.data) return response.data;
\* return null
ProcessEmailReturns ==
    /\ processReq.pc = "handled"
    /\ processReq' = [processReq EXCEPT !.pc = "returned"]
    /\ processResult' =
          [ returned |-> TRUE,
            id |-> IF processChannel = << >> THEN 0 ELSE processChannel[1].id ]
    /\ UNCHANGED << processVariant, processChannel, processSent, processCalls,
                    outsideProcess >>

InitProcess ==
    /\ ControlIdle
    /\ ListIdle
    /\ DispatchIdle
    /\ OrchestratorAtRest
    /\ summarizer = "gemini"
    /\ geminiSession = FALSE
    /\ SummarizeIdle
    /\ OffscreenIdle
    /\ DbIdle
    /\ AuditIdle
    /\ FilterIdle
    /\ GmailIdle
    /\ PopupIdle
    /\ DeleteIdle
    /\ processVariant \in {"offscreen", "part013"}
    /\ processReq = NoRequest
    /\ processChannel = << >>
    /\ processSent = << >>
    /\ processResult = NoFilterAnswer
    /\ processCalls = 0

NextProcess ==
    \/ SendProcessEmail
    \/ ProcessEmail
    \/ ProcessEmailReturns

SpecProcess == InitProcess /\ [][NextProcess]_vars

\* C30: a PROCESS_EMAIL request with data has, once the listener has handled
\* it, exactly one PROCESSED_EMAIL_RESULT envelope on its own response
\* channel; the envelope of a successful filter carries the request's id and
\* the caller returns that result; when the filter threw the envelope has
\* no data and an error, and the caller returns no filter result.
C30_AnsweredOnce ==
    (processReq.pc \in {"handled", "returned"} /\ processReq.hasData)
        => /\ Len(processChannel) = 1
           /\ processChannel[1].type = "PROCESSED_EMAIL_RESULT"
           /\ processChannel[1].error = processReq.threw
           /\ processChannel[1].id = IF processReq.threw THEN 0 ELSE processReq.id
           /\ processResult.returned
                 => processResult.id = IF processReq.threw THEN 0 ELSE processReq.id

\* --------------------------------------------- dispatch in the offscreen
\* Envelopes the offscreen document receives.
MaxEnvelopes == 2

\* Types that reach chrome.runtime.onMessage of the offscreen document: its
\* own, and the broadcasts meant for the popup.
EnvelopeTypes ==
    { "PROCESS_EMAIL", "DB/PING", "DB/UNKNOWN", "DB_STATS", "DB_BOGUS",
      "SYNC_STATUS", "NEW_EMAILS" }

\* The listeners registered in the document.
Listeners(v) == IF v = "offscreen" THEN {"filter", "db"} ELSE {"db"}

\* lib/db.ts isDbMessage: typeof type === 'string' && type.startsWith('DB/')
isDbMessage(type) == type \in LibCommands

\* The types the document's handlers know.
Handles(v, e) ==
    IF v = "offscreen"
    THEN isDbMessage(e.type) \/ (e.type = "PROCESS_EMAIL" /\ e.hasData)
    ELSE e.type \in KeyPointCommands \ {"DB_BOGUS"}

\* chrome.runtime.sendMessage from another context reaches every listener.
EnvelopeArrives ==
    /\ ran = Listeners(dispatchVariant) \/ envelope = NoEnvelope
    /\ dispatched < MaxEnvelopes
    /\ dispatched' = dispatched + 1
    /\ \E type \in EnvelopeTypes, hasData \in BOOLEAN :
          /\ hasData => type = "PROCESS_EMAIL"
          /\ envelope' = [ type |-> type, hasData |-> hasData,
                           dbBefore |-> dispatchDb ]
    /\ ran' = {}
    /\ answers' = << >>
    /\ UNCHANGED << dispatchVariant, dispatchDb, outsideDispatch >>

\* part_013 543-550: if (message.type === PROCESS_EMAIL && message.data)
\* { processEmail(..., sendResponse); return true }
FilterListener ==
    /\ envelope # NoEnvelope
    /\ "filter" \in Listeners(dispatchVariant) \ ran
    /\ ran' = ran \cup {"filter"}
    /\ answers' = IF envelope.type = "PROCESS_EMAIL" /\ envelope.hasData
                  THEN Append(answers, [ by |-> "filter",
                                         code |-> "PROCESSED_EMAIL_RESULT" ])
                  ELSE answers
    /\ UNCHANGED << dispatchVariant, envelope, dispatchDb, dispatched,
                    outsideDispatch >>

\* part_013 585-609: if (!isDbMessage(rawMessage)) return; then
\* sendResponse(await handleDatabaseMessage(message)), getDb() opening the
\* database.  part_013 347-415: no test of the message; the database is
\* initialized and the switch answers, its default with UNKNOWN_ACTION.
DbListener ==
    /\ envelope # NoEnvelope
    /\ "db" \in Listeners(dispatchVariant) \ ran
    /\ ran' = ran \cup {"db"}
    /\ LET msg == [ NoCmd EXCEPT !.type = envelope.type, !.id = 1,
                                 !.emailId = 1, !.value = 1 ]
       IN IF dispatchVariant = "offscreen"
          THEN IF isDbMessage(envelope.type)
               THEN /\ answers' = Append(answers,
                         [ by |-> "db",
                           code |-> HandleLib(msg, {}).response.code ])
                    /\ dispatchDb' = IF envelope.type = "DB/UNKNOWN"
                                     THEN dispatchDb ELSE "open"
               ELSE UNCHANGED << answers, dispatchDb >>
          ELSE /\ answers' = Append(answers,
                     [ by |-> "db",
                       code |-> HandleKeyPoints(msg, TRUE, {}, {}, 0).response.code ])
               /\ dispatchDb' = "open"
    /\ UNCHANGED << dispatchVariant, envelope, dispatched, outsideDispatch >>

InitDispatch ==
    /\ ControlIdle
    /\ ListIdle
    /\ OrchestratorAtRest
    /\ summarizer = "gemini"
    /\ geminiSession = FALSE
    /\ SummarizeIdle
    /\ OffscreenIdle
    /\ DbIdle
    /\ AuditIdle
    /\ FilterIdle
    /\ GmailIdle
    /\ PopupIdle
    /\ DeleteIdle
    /\ ProcessIdle
    /\ dispatchVariant \in {"offscreen", "keypoints"}
    /\ envelope = NoEnvelope
    /\ ran = {}
    /\ answers = << >>
    /\ dispatchDb \in {"null", "open"}
    /\ dispatched = 0

NextDispatch ==
    \/ EnvelopeArrives
    \/ FilterListener
    \/ DbListener

SpecDispatch == InitDispatch /\ [][NextDispatch]_vars

\* C31: once every listener of the offscreen document has run on an
\* envelope, an envelope of a type the document does not handle has no
\* response and has left the database as it was, no envelope has more than
\* one response, a DB/ command is answered by the database listener only
\* and PROCESS_EMAIL by the filter listener only.
C31_UnhandledIgnored ==
    (envelope # NoEnvelope /\ ran = Listeners(dispatchVariant))
        => /\ ~Handles(dispatchVariant, envelope)
                 => answers = << >> /\ dispatchDb = envelope.dbBefore
           /\ Len(answers) <= 1
           /\ \A i \in 1 .. Len(answers) :
                 /\ isDbMessage(envelope.type) => answers[i].by = "db"
                 /\ envelope.type = "PROCESS_EMAIL" => answers[i].by = "filter"

====
